---- MODULE Spec2Model ----
(***************************************************************************)
(* Authentication and token-lifecycle subsystem of leadflow.               *)
(*                                                                         *)
(*  - Token Store      app/core/security.py (access_tokens table)          *)
(*  - Account Service  app/services/auth_service.py                        *)
(*  - OTP Engine       app/services/otp_service.py (Redis + otps table)    *)
(*                                                                         *)
(* Time is a discrete clock `now`; datetime.utcnow() reads it.  Every      *)
(* Token Store operation is one durable-store transaction and is one       *)
(* action.  The OTP handlers are split at their Redis calls, so that       *)
(* concurrent requests interleave there.                                   *)
(***************************************************************************)
EXTENDS Integers, Sequences, FiniteSets, TLC

VARIABLES
    now,            \* datetime.utcnow()
    users,          \* users table: user id -> row
    customers,      \* customers table: set of rows
    businesses,     \* businesses table: set of rows
    accessTokens,   \* access_tokens table: set of rows
    generated,      \* plaintext tokens generate_simple_token has returned: token -> [user_id, expires_at]
    revoked,        \* plaintext tokens for which revoke_token has completed
    revokedAll,     \* plaintext tokens issued to a user before a later revoke_all_user_tokens of that user
    lastOp,         \* the last completed Token Store / Account Service call and its result
    redis,          \* Redis: user id -> the value at key otp:{user_id} and its expiry instant; rate-limit key -> its counter and expiry instant
    otps,           \* otps table (audit rows), in insertion order
    procs,          \* in-flight OTP requests: process id -> frame
    sent,           \* history, per user: the code create_and_send_otp wrote last, and the verify calls since
    nCreates,       \* number of create_and_send_otp calls started
    environment,    \* settings.ENVIRONMENT
    forwarded       \* history: the instant of the last request the rate limiter passed on, and how many it passed on at that instant

vars == <<now, users, customers, businesses, accessTokens, generated, revoked, revokedAll, lastOp,
          redis, otps, procs, sent, nCreates, environment, forwarded>>

acctVars == <<users, customers, businesses>>
tokenVars == <<accessTokens, generated, revoked, revokedAll>>
otpVars == <<redis, otps, procs, sent, nCreates, environment, forwarded>>

(***************************************************************************)
(* Bounds of the model.                                                    *)
(***************************************************************************)
MaxTime == 2
MaxTtl == 1
MaxTokens == 2
OtpMaxTime == 2
OtpExpiry == 2
OtpLength == 1
MaxDigit == 1
MaxCreates == 2
MaxProcs == 2
MaxOtpLength == 3

None == "none"

UserIds == {"u1", "u2"}
Emails == {"a@x", "b@x", "c@x"}
Passwords == {"pw1", "pw2"}
Ips == {None, "ip1"}
\* Plaintext tokens: those generate_simple_token can return, and one string that
\* it never returns (a token a client made up).
GenTokens == {<<"tok", i>> : i \in 1..MaxTokens}
UnknownToken == <<"tok", 0>>
Ttls == 1..MaxTtl

(***************************************************************************)
(* Credential Codec.                                                       *)
(***************************************************************************)
BcryptRounds == 12

\* bcrypt.hashpw(password, salt): a self-describing digest that embeds the cost
\* and the salt; the checksum depends on both the salt and the password.
bcrypt_hashpw(password, salt) ==
    [rounds |-> BcryptRounds, salt |-> salt, checksum |-> <<salt, password>>]

\* bcrypt.checkpw recomputes with the embedded salt and compares.
verify_password(plain_password, hashed_password) ==
    bcrypt_hashpw(plain_password, hashed_password.salt) = hashed_password

(***************************************************************************)
(* Token Store.                                                            *)
(***************************************************************************)
\* hashlib.sha256(token).hexdigest(): a digest, never the token itself.
hash_token(token) == <<"sha256", token>>

\* secrets.token_urlsafe(48) draws 384 random bits: it returns a token it has
\* not returned before.  Tokens are only ever compared for equality, so which
\* unused one it returns makes no difference: the model takes the one of least
\* index.
generate_simple_token ==
    LET unused == {i \in 1..MaxTokens : <<"tok", i>> \notin DOMAIN generated}
    IN  {<<"tok", i>> : i \in {j \in unused : \A k \in unused : j <= k}}

\* The tokens a client can present: the ones it was handed, or a made-up one.
Presentable == DOMAIN generated \cup {UnknownToken}

\* The row validate_token's query selects: matching digest, not expired.
TokenRecord(token) ==
    {r \in accessTokens : r.token_hash = hash_token(token) /\ r.expires_at > now}

ValidateResultNoExpiry(token) ==
    LET found == {r \in accessTokens : r.token_hash = hash_token(token)}
    IN  IF found = {} THEN None
        ELSE LET r == CHOOSE x \in found : TRUE
             IN  IF r.user_id \in DOMAIN users THEN r.user_id ELSE None

\* What validate_token returns for `token` in the current state: the owning
\* user, or None.
ValidateResult(token) ==
    IF TokenRecord(token) = {} THEN None
    ELSE LET r == CHOOSE x \in TokenRecord(token) : TRUE
         IN  IF r.user_id \in DOMAIN users THEN r.user_id ELSE None

\* The ip_address and user_agent columns are written at issue and read only to
\* log a warning in validate_token; they decide no result and are left out of
\* the row.
Done(op, args, result) ==
    lastOp' = [op |-> op, args |-> args, result |-> result]

create_access_token_stores_plaintext(user_id, ip_address, expires_hours) ==
    /\ \E plain_token \in generate_simple_token :
         LET expires_at == now + expires_hours
             access_token == [user_id |-> user_id,
                              token_hash |-> plain_token,
                              expires_at |-> expires_at]
         IN  /\ accessTokens' = accessTokens \cup {access_token}
             /\ generated' = [t \in DOMAIN generated \cup {plain_token} |->
                                IF t = plain_token
                                THEN [user_id |-> user_id, expires_at |-> expires_at]
                                ELSE generated[t]]
             /\ Done("issue", [user_id |-> user_id], plain_token)
    /\ UNCHANGED <<now, acctVars, revoked, revokedAll, otpVars>>

create_access_token_single_session(user_id, ip_address, expires_hours) ==
    /\ \E plain_token \in generate_simple_token :
         LET expires_at == now + expires_hours
             access_token == [user_id |-> user_id,
                              token_hash |-> hash_token(plain_token),
                              expires_at |-> expires_at]
         IN  /\ accessTokens' = {r \in accessTokens : r.user_id # user_id} \cup {access_token}
             /\ generated' = [t \in DOMAIN generated \cup {plain_token} |->
                                IF t = plain_token
                                THEN [user_id |-> user_id, expires_at |-> expires_at]
                                ELSE generated[t]]
             /\ Done("issue", [user_id |-> user_id], plain_token)
    /\ UNCHANGED <<now, acctVars, revoked, revokedAll, otpVars>>

create_access_token(user_id, ip_address, expires_hours) ==
    /\ \E plain_token \in generate_simple_token :
         LET expires_at == now + expires_hours
             access_token == [user_id |-> user_id,
                              token_hash |-> hash_token(plain_token),
                              expires_at |-> expires_at]
         IN  /\ accessTokens' = accessTokens \cup {access_token}
             /\ generated' = [t \in DOMAIN generated \cup {plain_token} |->
                                IF t = plain_token
                                THEN [user_id |-> user_id, expires_at |-> expires_at]
                                ELSE generated[t]]
             /\ Done("issue", [user_id |-> user_id], plain_token)
    /\ UNCHANGED <<now, acctVars, revoked, revokedAll, otpVars>>

\* check_ip is compared with the stored address for logging only.
validate_token(token, check_ip) ==
    /\ Done("validate", [token |-> token], ValidateResult(token))
    /\ UNCHANGED <<now, acctVars, tokenVars, otpVars>>

revoke_token_by_plaintext(token) ==
    LET hit == {r \in accessTokens : r.token_hash = token}
    IN  /\ accessTokens' = accessTokens \ hit
        /\ revoked' = revoked \cup {token}
        /\ Done("revoke", [token |-> token], hit # {})
        /\ UNCHANGED <<now, acctVars, generated, revokedAll, otpVars>>

revoke_token(token) ==
    LET hit == {r \in accessTokens : r.token_hash = hash_token(token)}
    IN  /\ accessTokens' = accessTokens \ hit
        /\ revoked' = revoked \cup {token}
        /\ Done("revoke", [token |-> token], hit # {})
        /\ UNCHANGED <<now, acctVars, generated, revokedAll, otpVars>>

revoke_all_tokens(user_id) ==
    /\ accessTokens' = {}
    /\ revokedAll' = revokedAll \cup {t \in DOMAIN generated : generated[t].user_id = user_id}
    /\ Done("revokeAll", [user_id |-> user_id], Cardinality(accessTokens))
    /\ UNCHANGED <<now, acctVars, generated, revoked, otpVars>>

revoke_all_user_tokens(user_id) ==
    LET hit == {r \in accessTokens : r.user_id = user_id}
    IN  /\ accessTokens' = accessTokens \ hit
        /\ revokedAll' = revokedAll \cup {t \in DOMAIN generated : generated[t].user_id = user_id}
        /\ Done("revokeAll", [user_id |-> user_id], Cardinality(hit))
        /\ UNCHANGED <<now, acctVars, generated, revoked, otpVars>>

cleanup_expired_tokens_at_or_before ==
    LET hit == {r \in accessTokens : r.expires_at <= now}
    IN  /\ accessTokens' = accessTokens \ hit
        /\ Done("sweep", <<>>, Cardinality(hit))
        /\ UNCHANGED <<now, acctVars, generated, revoked, revokedAll, otpVars>>

\* cleanup_expired_tokens: one DELETE of the rows whose expires_at is before
\* the current time, committed; returns the number of rows deleted.
cleanup_expired_tokens ==
    LET hit == {r \in accessTokens : r.expires_at < now}
    IN  /\ accessTokens' = accessTokens \ hit
        /\ Done("sweep", <<>>, Cardinality(hit))
        /\ UNCHANGED <<now, acctVars, generated, revoked, revokedAll, otpVars>>

\* The clock advances by one unit, up to `limit`; Redis drops the keys whose
\* time to live has run out.
Advance(limit) ==
    /\ now < limit
    /\ now' = now + 1
    /\ redis' = [u \in {k \in DOMAIN redis : redis[k].expire_at > now + 1} |-> redis[u]]
    /\ Done("tick", <<>>, None)
    /\ UNCHANGED <<acctVars, tokenVars, otps, procs, sent, nCreates, environment, forwarded>>

Tick == Advance(MaxTime)

(***************************************************************************)
(* Account Service (AuthService) and its endpoints.                        *)
(***************************************************************************)
\* UserRepository.get_by_email: the ids of the rows with that email (email is
\* unique, so at most one).
get_by_email(email) == {u \in DOMAIN users : users[u].email = email}

AuthenticationException(message) ==
    [error |-> "AuthenticationException", message |-> message]

\* A call that Python cannot complete: the callee is not defined, or does not
\* take the arguments it is given.
Unresolved(kind, what) == [error |-> kind, message |-> what]

login_result_reveals_account(email, password) ==
    IF get_by_email(email) = {}
    THEN AuthenticationException("User not found")
    ELSE LET u == CHOOSE x \in get_by_email(email) : TRUE
         IN  IF ~verify_password(password, users[u].password_hash)
             THEN AuthenticationException("Invalid email or password")
             ELSE Unresolved("ImportError", "generate_token_data")

\* The outcome of AuthService.login.  Lines 115-122 reject an unknown email and
\* a wrong password.  The success path (lines 124-129) calls generate_token_data
\* and create_refresh_token, which app.core.security does not define, and
\* create_access_token with a claims dictionary where security.py takes
\* (db, user_id, ...): it raises before a token row or last_login is written.
login_result(email, password) ==
    IF get_by_email(email) = {}
    THEN AuthenticationException("Invalid email or password")
    ELSE LET u == CHOOSE x \in get_by_email(email) : TRUE
         IN  IF ~verify_password(password, users[u].password_hash)
             THEN AuthenticationException("Invalid email or password")
             ELSE Unresolved("ImportError", "generate_token_data")

AuthService_login(email, password) ==
    /\ Done("login", [email |-> email, password |-> password], login_result(email, password))
    /\ UNCHANGED <<now, acctVars, tokenVars, otpVars>>

\* POST /login: passes ip_address and user_agent to AuthService.login, which
\* takes login_data only; the TypeError is no AuthenticationException, so the
\* request ends as an unhandled error (500).
login(email, password, ip_address) ==
    /\ Done("POST /login", <<>>, [status |-> 500, error |-> "TypeError"])
    /\ UNCHANGED <<now, acctVars, tokenVars, otpVars>>

\* AuthService.logout calls blacklist_token, which app.core.security does not
\* define; revoke_token is not called and no token row is touched.
AuthService_logout(token) ==
    /\ Done("logout", [token |-> token], Unresolved("ImportError", "blacklist_token"))
    /\ UNCHANGED <<now, acctVars, tokenVars, otpVars>>

\* POST /logout: a header that does not start with "Bearer " is answered 401;
\* otherwise the token goes to AuthService.logout.
logout(bearer, token) ==
    /\ IF ~bearer
       THEN Done("POST /logout", <<>>, [status |-> 401, error |-> "HTTPException"])
       ELSE Done("POST /logout", <<>>, [status |-> 500, error |-> "ImportError"])
    /\ UNCHANGED <<now, acctVars, tokenVars, otpVars>>

(***************************************************************************)
(* Registration (AuthService.register).  Each repository create is its own *)
(* commit (BaseRepository.create).                                         *)
(***************************************************************************)
BcryptMaxBytes == 72

UserTypes == {"CUSTOMER", "BUSINESS_OWNER", "ADMIN"}
RegEmails == {"a@x", "b@x"}
Phones == {None, "p1"}
\* Optional[bool]: the empty set is None.
Subscriptions == {{}, {TRUE}, {FALSE}}
\* A password of at most 72 bytes, and one of 72 characters that encodes to
\* more than 72 bytes.
RegPasswords == {"pw1", "pw72chars"}

ValidationException(message) == [error |-> "ValidationException", message |-> message]

\* len(password.encode('utf-8'))
utf8_len(password) ==
    CASE password = "pw72chars" -> BcryptMaxBytes + 1
      [] password = "pw73bytes" -> BcryptMaxBytes + 1
      [] password = "pw72bytes" -> BcryptMaxBytes
      [] password = "pw36wide" -> BcryptMaxBytes
      [] OTHER -> 8

\* hash_password, lines 45-49: ValueError for more than 72 bytes.
hash_password_raises(password) == utf8_len(password) > BcryptMaxBytes

\* UserRepository.get_by_phone: the ids of the rows with that phone.
get_by_phone(phone) == {u \in DOMAIN users : users[u].phone = phone}

\* The id of a new row (uuid4): one no row has.
NewUserId == CHOOSE u \in UserIds \ DOMAIN users : TRUE

\* bcrypt.gensalt(rounds=12): a salt no other hash was made with.
gensalt == <<"salt", NewUserId>>

register_ignores_flag(email, password, phone, user_type, have_subscription) ==
    IF get_by_email(email) # {}
    THEN ValidationException("Email already registered")
    ELSE IF phone # None /\ get_by_phone(phone) # {}
    THEN ValidationException("Phone number already registered")
    ELSE IF hash_password_raises(password)
    THEN ValidationException("Password validation failed")
    ELSE [error |-> None]

register_checks_flag_first(email, password, phone, user_type, have_subscription) ==
    IF user_type # "BUSINESS_OWNER" /\ have_subscription # {}
    THEN ValidationException("have_subscription field is only valid for business owners")
    ELSE IF get_by_email(email) # {}
    THEN ValidationException("Email already registered")
    ELSE IF phone # None /\ get_by_phone(phone) # {}
    THEN ValidationException("Phone number already registered")
    ELSE IF hash_password_raises(password)
    THEN ValidationException("Password validation failed")
    ELSE [error |-> None]

\* The checks of register, lines 47-67, in their order: the exception they
\* raise, or None when all pass.
register_rejects(email, password, phone, user_type, have_subscription) ==
    IF get_by_email(email) # {}
    THEN ValidationException("Email already registered")
    ELSE IF phone # None /\ get_by_phone(phone) # {}
    THEN ValidationException("Phone number already registered")
    ELSE IF user_type # "BUSINESS_OWNER" /\ have_subscription # {}
    THEN ValidationException("have_subscription field is only valid for business owners")
    ELSE IF hash_password_raises(password)
    THEN ValidationException("Password validation failed")
    ELSE [error |-> None]

ProfileRowsCustomerByDefault(user_id, user_type, have_subscription) ==
    [customers |-> IF user_type # "BUSINESS_OWNER" THEN {[user_id |-> user_id]} ELSE {},
     businesses |-> IF user_type = "BUSINESS_OWNER"
                    THEN {[user_id |-> user_id,
                           have_subscription |-> have_subscription = {TRUE}]}
                    ELSE {}]

\* The profile row register adds for a user of the given type, lines 85-97.
ProfileRows(user_id, user_type, have_subscription) ==
    [customers |-> IF user_type = "CUSTOMER" THEN {[user_id |-> user_id]} ELSE {},
     businesses |-> IF user_type = "BUSINESS_OWNER"
                    THEN {[user_id |-> user_id,
                           have_subscription |-> have_subscription = {TRUE}]}
                    ELSE {}]

\* AuthService.register: the checks; then the User row is created and
\* committed; then the profile row of the role is created and committed.  A
\* failure of the profile insert (profile_ok = FALSE) raises out of register
\* after the User row's commit.
register(email, password, phone, user_type, have_subscription) ==
    LET args == [email |-> email, password |-> password, phone |-> phone,
                 user_type |-> user_type, have_subscription |-> have_subscription]
        rejected == register_rejects(email, password, phone, user_type, have_subscription)
    IN  IF rejected.error # None
        THEN /\ Done("register", args, rejected)
             /\ UNCHANGED <<now, acctVars, tokenVars, otpVars>>
        ELSE /\ DOMAIN users # UserIds
             /\ \E profile_ok \in BOOLEAN :
                LET id == NewUserId
                    user == [email |-> email, password_hash |-> bcrypt_hashpw(password, gensalt),
                             phone |-> phone, user_type |-> user_type,
                             is_verified |-> FALSE, last_login |-> None]
                    rows == ProfileRows(id, user_type, have_subscription)
                    fails == ~profile_ok /\ user_type # "ADMIN"
                IN  /\ users' = [u \in DOMAIN users \cup {id} |->
                                   IF u = id THEN user ELSE users[u]]
                    /\ customers' = IF fails THEN customers ELSE customers \cup rows.customers
                    /\ businesses' = IF fails THEN businesses ELSE businesses \cup rows.businesses
                    /\ Done("register", args,
                            IF fails THEN [error |-> "SQLAlchemyError", message |-> "profile insert"]
                            ELSE [error |-> None, user |-> id])
             /\ UNCHANGED <<now, tokenVars, otpVars>>

\* The unique constraints of users.email and users.phone, as the INSERT
\* meets them: the row's email, or its non-null phone, is in the table.
IntegrityError(message) == [error |-> "IntegrityError", message |-> message]
unique_violation(email, phone) ==
    \/ get_by_email(email) # {}
    \/ phone # None /\ get_by_phone(phone) # {}

\* register under concurrent requests, first part (lines 47-67): the two
\* SELECTs and the checks.  A request that passes goes on to its INSERT.
register_check(p, email, password, phone, user_type, have_subscription) ==
    LET args == [email |-> email, password |-> password, phone |-> phone,
                 user_type |-> user_type, have_subscription |-> have_subscription]
        rejected == register_rejects(email, password, phone, user_type, have_subscription)
    IN  /\ procs[p].pc = "idle"
        /\ IF rejected.error # None
           THEN Done("register", args, rejected) /\ UNCHANGED procs
           ELSE /\ procs' = [procs EXCEPT ![p] = [pc |-> "insert", args |-> args]]
                /\ UNCHANGED lastOp
        /\ UNCHANGED <<now, acctVars, tokenVars, redis, otps, sent, nCreates, environment, forwarded>>

\* register under concurrent requests, second part (lines 69-97): the INSERT
\* of the User row, which the database refuses with IntegrityError when the
\* email or the phone has been taken since the checks; then the INSERT of the
\* profile row.
register_insert(p) ==
    LET args == procs[p].args
    IN  /\ procs[p].pc = "insert"
        /\ IF unique_violation(args.email, args.phone)
           THEN /\ Done("register", args, IntegrityError("duplicate key value"))
                /\ UNCHANGED acctVars
           ELSE /\ DOMAIN users # UserIds
                /\ LET id == NewUserId
                       user == [email |-> args.email,
                                password_hash |-> bcrypt_hashpw(args.password, gensalt),
                                phone |-> args.phone, user_type |-> args.user_type,
                                is_verified |-> FALSE, last_login |-> None]
                       rows == ProfileRows(id, args.user_type, args.have_subscription)
                   IN  /\ users' = [u \in DOMAIN users \cup {id} |->
                                      IF u = id THEN user ELSE users[u]]
                       /\ customers' = customers \cup rows.customers
                       /\ businesses' = businesses \cup rows.businesses
                       /\ Done("register", args, [error |-> None, user |-> id])
        /\ procs' = [procs EXCEPT ![p] = [pc |-> "idle"]]
        /\ UNCHANGED <<now, tokenVars, redis, otps, sent, nCreates, environment, forwarded>>

\* The salts bcrypt.gensalt can return.
Salts == {"salt1", "salt2", "salt3", "salt4"}

ValueError(message) == [error |-> "ValueError", message |-> message]

hash_password_limit_off_by_one(password, salt) ==
    IF utf8_len(password) >= BcryptMaxBytes
    THEN ValueError("Password cannot exceed 72 bytes")
    ELSE bcrypt_hashpw(password, salt)

hash_password_ignores_salt(password, salt) ==
    IF hash_password_raises(password)
    THEN ValueError("Password cannot exceed 72 bytes")
    ELSE [rounds |-> BcryptRounds, salt |-> salt, checksum |-> <<"salt1", password>>]

\* hash_password: ValueError for more than 72 bytes of UTF-8, otherwise the
\* bcrypt digest under the salt gensalt returned.
hash_password(password, salt) ==
    IF hash_password_raises(password)
    THEN ValueError("Password cannot exceed 72 bytes")
    ELSE bcrypt_hashpw(password, salt)

\* The passwords the codec is called with: short ones, two of exactly 72
\* bytes (72 one-byte characters; 36 two-byte characters), and two of 73 bytes
\* (72 characters, one of them of two bytes; 73 one-byte characters).
CodecPasswords == {"pw1", "pw2", "pw72bytes", "pw36wide", "pw72chars", "pw73bytes"}

\* A call of hash_password.
call_hash_password(password, salt) ==
    /\ Done("hash_password", [password |-> password], hash_password(password, salt))
    /\ UNCHANGED <<now, acctVars, tokenVars, otpVars>>

\* A call of verify_password with a hash that hash_password returned (for
\* hashed_from: the last call's result, or the hash the last call verified).
call_verify_password(plain_password) ==
    /\ lastOp.op \in {"hash_password", "verify_password"}
    /\ LET hashed_password == IF lastOp.op = "hash_password" THEN lastOp.result
                              ELSE lastOp.args.hashed_password
           hashed_from == IF lastOp.op = "hash_password" THEN lastOp.args.password
                          ELSE lastOp.args.hashed_from
       IN  /\ "error" \notin DOMAIN hashed_password
           /\ Done("verify_password",
                   [plain_password |-> plain_password, hashed_password |-> hashed_password,
                    hashed_from |-> hashed_from],
                   verify_password(plain_password, hashed_password))
    /\ UNCHANGED <<now, acctVars, tokenVars, otpVars>>

ResourceNotFoundException(resource, id) ==
    [error |-> "ResourceNotFoundException", message |-> <<resource, "with id", id, "not found">>]

\* The user ids reset_password is called with: the users' and one no row has.
ResetUserIds == UserIds \cup {"u0"}
ResetPasswords == {"pw2", "pw72bytes", "pw72chars"}

reset_password_revokes_tokens(user_id, new_password, salt) ==
    LET args == [user_id |-> user_id, new_password |-> new_password]
        password_hash == hash_password(new_password, salt)
    IN  /\ IF user_id \notin DOMAIN users
           THEN /\ Done("reset_password", args, ResourceNotFoundException("User", user_id))
                /\ UNCHANGED <<users, accessTokens>>
           ELSE IF "error" \in DOMAIN password_hash
           THEN /\ Done("reset_password", args,
                        ValidationException("Password validation failed"))
                /\ UNCHANGED <<users, accessTokens>>
           ELSE /\ users' = [users EXCEPT ![user_id].password_hash = password_hash]
                /\ accessTokens' = {r \in accessTokens : r.user_id # user_id}
                /\ Done("reset_password", args, [ok |-> TRUE])
        /\ UNCHANGED <<now, customers, businesses, generated, revoked, revokedAll, otpVars>>

\* AuthService.reset_password: ResourceNotFoundException for an id no row
\* has; ValidationException when hash_password raises ValueError; otherwise
\* the row's password_hash is overwritten and committed.
AuthService_reset_password(user_id, new_password, salt) ==
    LET args == [user_id |-> user_id, new_password |-> new_password]
        password_hash == hash_password(new_password, salt)
    IN  /\ IF user_id \notin DOMAIN users
           THEN /\ Done("reset_password", args, ResourceNotFoundException("User", user_id))
                /\ UNCHANGED users
           ELSE IF "error" \in DOMAIN password_hash
           THEN /\ Done("reset_password", args,
                        ValidationException("Password validation failed"))
                /\ UNCHANGED users
           ELSE /\ users' = [users EXCEPT ![user_id].password_hash = password_hash]
                /\ Done("reset_password", args, [ok |-> TRUE])
        /\ UNCHANGED <<now, customers, businesses, tokenVars, otpVars>>

(***************************************************************************)
(* OTP Engine (OTPService): Redis is the source of truth, the otps table   *)
(* the audit copy.  One action per Redis call of a handler, together with  *)
(* the database and SMTP calls the handler makes before its next Redis     *)
(* call.                                                                   *)
(***************************************************************************)
OTP_MAX_ATTEMPTS == 3

ProcIds == 1..MaxProcs
Purposes == {"verification", "password_reset"}
Environments == {"local", "production"}
\* The users whose OTP requests the OTP specifications follow (the cache is
\* keyed by user; requests of different users share no entry).
OtpUsers == {"u1"}

OTPException(message) == [error |-> "OTPException", message |-> message]

Idle == [pc |-> "idle"]
InFlight == {p \in ProcIds : procs[p].pc # "idle"}

\* generate_otp: otp_length digits, each str(secrets.randbelow(10)); the model
\* draws the digits from 0..MaxDigit.
generate_otp == [1..OtpLength -> 0..MaxDigit]

\* secrets.randbelow(n): an integer of 0..n-1.
randbelow(n) == 0..(n - 1)

\* str(d) of a one-digit integer: its decimal character.
DigitChars == <<"0", "1", "2", "3", "4", "5", "6", "7", "8", "9">>
str(d) == DigitChars[d + 1]

generate_otp_drops_leading_zeros(otp_length) ==
    {<<"0">>} \cup
    UNION {{[i \in 1..n |-> str(ds[i])] : ds \in {x \in [1..n -> randbelow(10)] : x[1] # 0}} :
             n \in 1..otp_length}

\* generate_otp with every digit it can draw: "".join of otp_length characters,
\* each str(secrets.randbelow(10)); the strings it can return.
generate_otp_string(otp_length) ==
    {[i \in 1..otp_length |-> str(ds[i])] : ds \in [1..otp_length -> randbelow(10)]}

\* The values of settings.OTP_LENGTH the model follows.
OtpLengths == 1..MaxOtpLength

\* A call of generate_otp of a service configured with otp_length.
call_generate_otp(otp_length) ==
    /\ \E otp \in generate_otp_string(otp_length) :
         Done("generate_otp", [otp_length |-> otp_length], otp)
    /\ UNCHANGED <<now, acctVars, tokenVars, otpVars>>

\* json.dumps / json.loads of the cached dictionary.
json_dumps(data) == <<"json", data>>
json_loads(text) == text[2]

\* redis.get(f"otp:{user_id}"): whether the key holds a value, and the value.
redis_exists(user_id) == user_id \in DOMAIN redis
redis_get(user_id) == redis[user_id].value

\* redis.setex(key, ttl, value): store the value and restart its time to live.
redis_setex(user_id, ttl, value) ==
    redis' = [k \in DOMAIN redis \cup {user_id} |->
                IF k = user_id THEN [value |-> value, expire_at |-> now + ttl] ELSE redis[k]]

redis_delete(user_id) == redis' = [k \in DOMAIN redis \ {user_id} |-> redis[k]]

\* OTPRepository.get_active_by_user: the newest unused, unexpired audit row of
\* the user (its index in otps), or 0.
get_active_by_user(user_id) ==
    LET active == {i \in 1..Len(otps) : /\ otps[i].user_id = user_id
                                         /\ ~otps[i].is_used
                                         /\ otps[i].expires_at > now}
    IN  IF active = {} THEN 0 ELSE CHOOSE i \in active : \A j \in active : j <= i

\* The history variable `sent`, per user: the code create_and_send_otp wrote
\* last and when; and, since then, the number of completed verify calls that
\* presented another code (`wrong`, counted up to OTP_MAX_ATTEMPTS + 2) and
\* the number that presented this code (`right`, counted up to 2).
NoteCreate(user_id, otp_code) ==
    sent' = [u \in DOMAIN sent \cup {user_id} |->
               IF u # user_id THEN sent[u]
               ELSE [code |-> otp_code, at |-> now, wrong |-> 0, right |-> 0]]

NoteVerify(user_id, otp_code) ==
    sent' = IF user_id \notin DOMAIN sent THEN sent
            ELSE LET h == sent[user_id]
                 IN  [sent EXCEPT ![user_id].wrong =
                                      IF otp_code # h.code /\ h.wrong < OTP_MAX_ATTEMPTS + 2
                                      THEN h.wrong + 1 ELSE h.wrong,
                                  ![user_id].right =
                                      IF otp_code = h.code /\ h.right < 2
                                      THEN h.right + 1 ELSE h.right]

VerifyArgs(user_id, otp_code) == [user_id |-> user_id, otp_code |-> otp_code]

\* send_otp_email / send_password_reset_email -> EmailService.send_email,
\* lines 49-80: True when SMTP accepts the message; when it fails, False in
\* the local environment and an exception otherwise.
send_email(smtp_ok) ==
    IF smtp_ok THEN "True"
    ELSE IF environment = "local" THEN "False" ELSE "raise"

\* The code and attempts of the cache entry that a cache write replaces, if
\* there is one (kept in the record of the completed call).
Replaced(user_id) ==
    IF redis_exists(user_id)
    THEN {[code |-> json_loads(redis_get(user_id)).code,
           attempts |-> json_loads(redis_get(user_id)).attempts]}
    ELSE {}

\* create_and_send_otp, lines 78-98: insert the audit row; a database failure
\* (db_ok = FALSE) is logged and swallowed.
create_audit(user_id, otp_code, expires_at, db_ok) ==
    otps' = IF db_ok
            THEN Append(otps, [user_id |-> user_id, code |-> otp_code,
                               expires_at |-> expires_at, is_used |-> FALSE,
                               attempts |-> 0, used_at |-> None])
            ELSE otps

create_result_audit_failure_raises(otp_code, db_ok, smtp_ok) ==
    IF ~db_ok THEN OTPException("Failed to store OTP")
    ELSE IF send_email(smtp_ok) = "raise" THEN OTPException("Failed to send OTP email")
    ELSE [ok |-> otp_code]

\* create_and_send_otp, lines 100-111: send the code, an exception of the
\* email service becoming OTPException; return the code.
create_result(otp_code, db_ok, smtp_ok) ==
    IF send_email(smtp_ok) = "raise"
    THEN OTPException("Failed to send OTP email")
    ELSE [ok |-> otp_code]

\* What create_and_send_otp does after its cache write (lines 78-111): the
\* audit insert, the email, the return.
create_audit_and_send(user_id, otp_code, expires_at, db_ok, smtp_ok) ==
    /\ create_audit(user_id, otp_code, expires_at, db_ok)
    /\ Done("create",
            [user_id |-> user_id, otp_code |-> otp_code, replaced |-> Replaced(user_id),
             stored |-> db_ok, delivered |-> smtp_ok],
            create_result(otp_code, db_ok, smtp_ok))

create_keeps_attempts(p, user_id, purpose, db_ok, smtp_ok) ==
    /\ procs[p].pc = "idle"
    /\ nCreates < MaxCreates
    /\ \E otp_code \in generate_otp :
         LET otp_data == [code |-> otp_code,
                          attempts |-> IF redis_exists(user_id)
                                       THEN json_loads(redis_get(user_id)).attempts ELSE 0,
                          created_at |-> now, purpose |-> purpose]
         IN  /\ redis_setex(user_id, OtpExpiry, json_dumps(otp_data))
             /\ create_audit_and_send(user_id, otp_code, now + OtpExpiry, db_ok, smtp_ok)
             /\ NoteCreate(user_id, otp_code)
    /\ nCreates' = nCreates + 1
    /\ UNCHANGED <<now, acctVars, tokenVars, procs, environment, forwarded>>

\* create_and_send_otp: generate the code and write it to Redis at
\* otp:{user_id} with attempts 0 and the full time to live (lines 60-76), the
\* handler's one Redis call; then the audit insert and the email.
create_and_send_otp(p, user_id, purpose, db_ok, smtp_ok) ==
    /\ procs[p].pc = "idle"
    /\ nCreates < MaxCreates
    /\ \E otp_code \in generate_otp :
         LET otp_data == [code |-> otp_code, attempts |-> 0,
                          created_at |-> now, purpose |-> purpose]
         IN  /\ redis_setex(user_id, OtpExpiry, json_dumps(otp_data))
             /\ create_audit_and_send(user_id, otp_code, now + OtpExpiry, db_ok, smtp_ok)
             /\ NoteCreate(user_id, otp_code)
    /\ nCreates' = nCreates + 1
    /\ UNCHANGED <<now, acctVars, tokenVars, procs, environment, forwarded>>

attempts_never_exhausted(otp_data) == FALSE

attempts_exhausted_off_by_one(otp_data) == otp_data.attempts > OTP_MAX_ATTEMPTS

\* verify_otp, line 137: the attempts check.
attempts_exhausted(otp_data) == otp_data.attempts >= OTP_MAX_ATTEMPTS

\* verify_otp, lines 127-142: read the entry (redis.get) and decide; a missing
\* entry ends the call at once.
verify_otp(p, user_id, otp_code) ==
    /\ procs[p].pc = "idle"
    /\ LET otp_data_str == redis_get(user_id)
       IN  IF ~redis_exists(user_id)
           THEN /\ Done("verify", VerifyArgs(user_id, otp_code),
                        OTPException("OTP expired or not found"))
                /\ NoteVerify(user_id, otp_code)
                /\ UNCHANGED procs
           ELSE LET otp_data == json_loads(otp_data_str)
                    next == IF attempts_exhausted(otp_data) THEN "exhausted"
                            ELSE IF otp_data.code # otp_code THEN "mismatch"
                            ELSE "match"
                IN  /\ procs' = [procs EXCEPT ![p] =
                                   IF next = "mismatch"
                                   THEN [pc |-> next, user_id |-> user_id,
                                         otp_code |-> otp_code, otp_data |-> otp_data]
                                   ELSE [pc |-> next, user_id |-> user_id,
                                         otp_code |-> otp_code]]
                    /\ UNCHANGED <<lastOp, sent>>
    /\ UNCHANGED <<now, acctVars, tokenVars, redis, otps, nCreates, environment, forwarded>>

\* verify_otp, lines 138-139: delete the exhausted entry and fail.
verify_exhausted(p) ==
    /\ procs[p].pc = "exhausted"
    /\ redis_delete(procs[p].user_id)
    /\ Done("verify", VerifyArgs(procs[p].user_id, procs[p].otp_code),
            OTPException("Maximum OTP attempts exceeded"))
    /\ NoteVerify(procs[p].user_id, procs[p].otp_code)
    /\ procs' = [procs EXCEPT ![p] = Idle]
    /\ UNCHANGED <<now, acctVars, tokenVars, otps, nCreates, environment, forwarded>>

verify_mismatch_atomic_increment(p, db_ok) ==
    /\ procs[p].pc = "mismatch"
    /\ LET current == IF redis_exists(procs[p].user_id)
                      THEN json_loads(redis_get(procs[p].user_id))
                      ELSE procs[p].otp_data
           otp_data == [current EXCEPT !.attempts = @ + 1]
       IN  redis_setex(procs[p].user_id, OtpExpiry, json_dumps(otp_data))
    /\ LET active_otp == get_active_by_user(procs[p].user_id)
       IN  otps' = IF db_ok /\ active_otp # 0 /\ otps[active_otp].code = procs[p].otp_code
                   THEN [otps EXCEPT ![active_otp].attempts = @ + 1]
                   ELSE otps
    /\ Done("verify", VerifyArgs(procs[p].user_id, procs[p].otp_code),
            OTPException("Invalid OTP code"))
    /\ NoteVerify(procs[p].user_id, procs[p].otp_code)
    /\ procs' = [procs EXCEPT ![p] = Idle]
    /\ UNCHANGED <<now, acctVars, tokenVars, nCreates, environment, forwarded>>

\* verify_otp, lines 143-163: write the entry that was read back with one more
\* attempt under a full time to live (redis.setex); then count the attempt on
\* the active audit row when that row's code equals the presented code, a
\* database failure being logged only; fail.
verify_mismatch(p, db_ok) ==
    /\ procs[p].pc = "mismatch"
    /\ LET otp_data == [procs[p].otp_data EXCEPT !.attempts = @ + 1]
       IN  redis_setex(procs[p].user_id, OtpExpiry, json_dumps(otp_data))
    /\ LET active_otp == get_active_by_user(procs[p].user_id)
       IN  otps' = IF db_ok /\ active_otp # 0 /\ otps[active_otp].code = procs[p].otp_code
                   THEN [otps EXCEPT ![active_otp].attempts = @ + 1]
                   ELSE otps
    /\ Done("verify", VerifyArgs(procs[p].user_id, procs[p].otp_code),
            OTPException("Invalid OTP code"))
    /\ NoteVerify(procs[p].user_id, procs[p].otp_code)
    /\ procs' = [procs EXCEPT ![p] = Idle]
    /\ UNCHANGED <<now, acctVars, tokenVars, nCreates, environment, forwarded>>

verify_match_keeps_entry(p, db_ok) ==
    /\ procs[p].pc = "match"
    /\ LET active_otp == get_active_by_user(procs[p].user_id)
       IN  otps' = IF db_ok /\ active_otp # 0
                   THEN [otps EXCEPT ![active_otp].is_used = TRUE, ![active_otp].used_at = now]
                   ELSE otps
    /\ Done("verify", VerifyArgs(procs[p].user_id, procs[p].otp_code), [ok |-> TRUE])
    /\ NoteVerify(procs[p].user_id, procs[p].otp_code)
    /\ procs' = [procs EXCEPT ![p] = Idle]
    /\ UNCHANGED <<now, acctVars, tokenVars, redis, nCreates, environment, forwarded>>

verify_match_needs_audit_row(p, db_ok) ==
    /\ procs[p].pc = "match"
    /\ LET active_otp == get_active_by_user(procs[p].user_id)
           found == db_ok /\ active_otp # 0
       IN  /\ otps' = IF found
                      THEN [otps EXCEPT ![active_otp].is_used = TRUE, ![active_otp].used_at = now]
                      ELSE otps
           /\ IF found THEN redis_delete(procs[p].user_id) ELSE UNCHANGED redis
           /\ Done("verify", VerifyArgs(procs[p].user_id, procs[p].otp_code),
                   IF found THEN [ok |-> TRUE] ELSE OTPException("Invalid OTP code"))
    /\ NoteVerify(procs[p].user_id, procs[p].otp_code)
    /\ procs' = [procs EXCEPT ![p] = Idle]
    /\ UNCHANGED <<now, acctVars, tokenVars, nCreates, environment, forwarded>>

\* verify_otp, lines 165-181: mark the active audit row used, a database
\* failure being logged only; delete the entry (redis.delete); return True.
verify_match(p, db_ok) ==
    /\ procs[p].pc = "match"
    /\ LET active_otp == get_active_by_user(procs[p].user_id)
       IN  otps' = IF db_ok /\ active_otp # 0
                   THEN [otps EXCEPT ![active_otp].is_used = TRUE, ![active_otp].used_at = now]
                   ELSE otps
    /\ redis_delete(procs[p].user_id)
    /\ Done("verify", VerifyArgs(procs[p].user_id, procs[p].otp_code), [ok |-> TRUE])
    /\ NoteVerify(procs[p].user_id, procs[p].otp_code)
    /\ procs' = [procs EXCEPT ![p] = Idle]
    /\ UNCHANGED <<now, acctVars, tokenVars, nCreates, environment, forwarded>>

\* The audit rows OTPRepository.get_expired selects: unused and past expiry.
get_expired(otp) == ~otp.is_used /\ otp.expires_at < now

cleanup_expired_otps_removes_used(db_ok) ==
    /\ IF db_ok
       THEN LET kept(otp) == ~(otp.expires_at < now)
            IN  /\ otps' = SelectSeq(otps, kept)
                /\ Done("cleanup", [db_ok |-> db_ok], Len(otps) - Len(SelectSeq(otps, kept)))
       ELSE /\ UNCHANGED otps
            /\ Done("cleanup", [db_ok |-> db_ok], Unresolved("OperationalError", "get_expired"))
    /\ UNCHANGED <<now, acctVars, tokenVars, redis, procs, sent, nCreates, environment, forwarded>>

\* OTPService.cleanup_expired_otps: OTPRepository.cleanup_expired deletes the
\* rows get_expired selects, commits and returns their number; a database
\* failure (db_ok = FALSE) is not caught.  Redis is not touched.
cleanup_expired_otps(db_ok) ==
    /\ IF db_ok
       THEN LET kept(otp) == ~get_expired(otp)
            IN  /\ otps' = SelectSeq(otps, kept)
                /\ Done("cleanup", [db_ok |-> db_ok], Len(otps) - Len(SelectSeq(otps, kept)))
       ELSE /\ UNCHANGED otps
            /\ Done("cleanup", [db_ok |-> db_ok], Unresolved("OperationalError", "get_expired"))
    /\ UNCHANGED <<now, acctVars, tokenVars, redis, procs, sent, nCreates, environment, forwarded>>

\* The clock of the audit-row sweep runs past the expiry of the first rows.
CleanupMaxTime == 3

CleanupTick == Advance(CleanupMaxTime)

OtpTick == Advance(OtpMaxTime)

\* A request arrives.
OtpStart(p) ==
    \/ \E u \in OtpUsers, purpose \in Purposes, db_ok \in BOOLEAN, smtp_ok \in BOOLEAN :
         create_and_send_otp(p, u, purpose, db_ok, smtp_ok)
    \/ \E u \in OtpUsers, code \in generate_otp : verify_otp(p, u, code)

\* A verify in flight makes its second Redis call and ends.
OtpStep(p) ==
    \/ verify_exhausted(p)
    \/ \E db_ok \in BOOLEAN : verify_mismatch(p, db_ok)
    \/ \E db_ok \in BOOLEAN : verify_match(p, db_ok)

\* SuccessResponse(data=..., message=...), answered with status 200, and
\* HTTPException(status_code=..., detail=...).
SuccessResponse(data, message) == [status |-> 200, data |-> data, message |-> message]
HTTPException(status_code, detail) == [status |-> status_code, detail |-> detail]

\* The emails POST /forgot-password is asked about: a registered one and one
\* no user has.
ForgotEmails == {"a@x", "c@x"}

\* POST /forgot-password: an email no user has is acknowledged at once; for a
\* user's email the endpoint calls create_and_send_otp(user.id, user.email,
\* purpose="password_reset") (the cache write, the audit insert, the email),
\* acknowledges with the same message when it returns, and answers 400 with
\* the exception's text when it raises OTPException.
forgot_password(p, email, db_ok, smtp_ok) ==
    LET user == get_by_email(email)
        ack == SuccessResponse(<<>>, "If the email exists, an OTP has been sent.")
    IN  /\ procs[p].pc = "idle"
        /\ IF user = {}
           THEN /\ Done("POST /forgot-password", [email |-> email], ack)
                /\ UNCHANGED <<redis, otps, sent, nCreates>>
           ELSE /\ nCreates < MaxCreates
                /\ \E user_id \in user, otp_code \in generate_otp :
                     LET otp_data == [code |-> otp_code, attempts |-> 0,
                                      created_at |-> now, purpose |-> "password_reset"]
                         result == create_result(otp_code, db_ok, smtp_ok)
                     IN  /\ redis_setex(user_id, OtpExpiry, json_dumps(otp_data))
                         /\ create_audit(user_id, otp_code, now + OtpExpiry, db_ok)
                         /\ NoteCreate(user_id, otp_code)
                         /\ Done("POST /forgot-password", [email |-> email],
                                 IF "error" \in DOMAIN result
                                 THEN HTTPException(400, result.message)
                                 ELSE ack)
                /\ nCreates' = nCreates + 1
        /\ UNCHANGED <<now, acctVars, tokenVars, procs, environment, forwarded>>

\* The emails POST /send-otp is asked about: a registered one and one no user
\* has.
SendOtpEmails == {"a@x", "c@x"}

send_otp_acknowledges_unknown(p, email, db_ok, smtp_ok) ==
    LET user == get_by_email(email)
    IN  /\ procs[p].pc = "idle"
        /\ IF user = {}
           THEN /\ Done("POST /send-otp", [email |-> email, mail |-> {}],
                        SuccessResponse(<<>>, <<"OTP sent to", email>>))
                /\ UNCHANGED <<redis, otps, sent, nCreates>>
           ELSE /\ nCreates < MaxCreates
                /\ \E user_id \in user, otp_code \in generate_otp :
                     LET otp_data == [code |-> otp_code, attempts |-> 0,
                                      created_at |-> now, purpose |-> "verification"]
                         result == create_result(otp_code, db_ok, smtp_ok)
                     IN  /\ redis_setex(user_id, OtpExpiry, json_dumps(otp_data))
                         /\ create_audit(user_id, otp_code, now + OtpExpiry, db_ok)
                         /\ NoteCreate(user_id, otp_code)
                         /\ Done("POST /send-otp",
                                 [email |-> email,
                                  mail |-> {[to |-> email, delivered |-> smtp_ok]}],
                                 IF "error" \in DOMAIN result
                                 THEN HTTPException(400, result.message)
                                 ELSE SuccessResponse(<<>>, <<"OTP sent to", email>>))
                /\ nCreates' = nCreates + 1
        /\ UNCHANGED <<now, acctVars, tokenVars, procs, environment, forwarded>>

\* POST /send-otp: 404 "User not found" for an email no user has; for a
\* user's email the endpoint calls create_and_send_otp(user.id, user.email,
\* purpose="verification") (the cache write, the audit insert, the email),
\* answers "OTP sent to ..." when it returns and 400 with the exception's text
\* when it raises OTPException.  `mail` in the record of the call is the
\* message handed to the email service, if any.
send_otp(p, email, db_ok, smtp_ok) ==
    LET user == get_by_email(email)
    IN  /\ procs[p].pc = "idle"
        /\ IF user = {}
           THEN /\ Done("POST /send-otp", [email |-> email, mail |-> {}],
                        HTTPException(404, "User not found"))
                /\ UNCHANGED <<redis, otps, sent, nCreates>>
           ELSE /\ nCreates < MaxCreates
                /\ \E user_id \in user, otp_code \in generate_otp :
                     LET otp_data == [code |-> otp_code, attempts |-> 0,
                                      created_at |-> now, purpose |-> "verification"]
                         result == create_result(otp_code, db_ok, smtp_ok)
                     IN  /\ redis_setex(user_id, OtpExpiry, json_dumps(otp_data))
                         /\ create_audit(user_id, otp_code, now + OtpExpiry, db_ok)
                         /\ NoteCreate(user_id, otp_code)
                         /\ Done("POST /send-otp",
                                 [email |-> email,
                                  mail |-> {[to |-> email, delivered |-> smtp_ok]}],
                                 IF "error" \in DOMAIN result
                                 THEN HTTPException(400, result.message)
                                 ELSE SuccessResponse(<<>>, <<"OTP sent to", email>>))
                /\ nCreates' = nCreates + 1
        /\ UNCHANGED <<now, acctVars, tokenVars, procs, environment, forwarded>>

verify_otp_outcome_verification_only(user_id, otp_code) ==
    IF ~redis_exists(user_id) THEN "missing"
    ELSE LET otp_data == json_loads(redis_get(user_id))
         IN  IF attempts_exhausted(otp_data) THEN "exhausted"
             ELSE IF otp_data.code # otp_code \/ otp_data.purpose # "verification"
             THEN "mismatch"
             ELSE "match"

\* verify_otp as one call (lines 127-142 and 165): the branch it takes for
\* the entry in the cache.  The entry's purpose is not read.
verify_otp_outcome(user_id, otp_code) ==
    IF ~redis_exists(user_id) THEN "missing"
    ELSE LET otp_data == json_loads(redis_get(user_id))
         IN  IF attempts_exhausted(otp_data) THEN "exhausted"
             ELSE IF otp_data.code # otp_code THEN "mismatch"
             ELSE "match"

\* What verify_otp raises or returns in each branch.
verify_otp_returns(outcome) ==
    CASE outcome = "missing" -> OTPException("OTP expired or not found")
      [] outcome = "exhausted" -> OTPException("Maximum OTP attempts exceeded")
      [] outcome = "mismatch" -> OTPException("Invalid OTP code")
      [] outcome = "match" -> [ok |-> TRUE]

\* What verify_otp, called by an endpoint and run to its end, does to the
\* cache and to the audit rows (lines 127-181).
verify_otp_call(user_id, otp_code, db_ok) ==
    LET outcome == verify_otp_outcome(user_id, otp_code)
        active_otp == get_active_by_user(user_id)
    IN  /\ CASE outcome = "missing" -> UNCHANGED <<redis, otps>>
             [] outcome = "exhausted" -> redis_delete(user_id) /\ UNCHANGED otps
             [] outcome = "mismatch" ->
                  /\ LET otp_data == [json_loads(redis_get(user_id)) EXCEPT !.attempts = @ + 1]
                     IN  redis_setex(user_id, OtpExpiry, json_dumps(otp_data))
                  /\ otps' = IF db_ok /\ active_otp # 0 /\ otps[active_otp].code = otp_code
                             THEN [otps EXCEPT ![active_otp].attempts = @ + 1]
                             ELSE otps
             [] outcome = "match" ->
                  /\ otps' = IF db_ok /\ active_otp # 0
                             THEN [otps EXCEPT ![active_otp].is_used = TRUE,
                                               ![active_otp].used_at = now]
                             ELSE otps
                  /\ redis_delete(user_id)
        /\ NoteVerify(user_id, otp_code)

\* The entry an endpoint's verify_otp call finds in the cache, if any (kept in
\* the record of the call).
EntryRead(user) ==
    UNION {IF redis_exists(u) THEN {json_loads(redis_get(u))} ELSE {} : u \in user}

verify_otp_endpoint_activates_always(email, otp, db_ok, status_ok) ==
    LET user == get_by_email(email)
        args == [email |-> email, otp |-> otp, entry |-> EntryRead(user)]
    IN  /\ IF user = {}
           THEN /\ Done("POST /verify-otp", args, HTTPException(404, "User not found"))
                /\ UNCHANGED <<users, redis, otps, sent>>
           ELSE \E user_id \in user :
                  LET returns == verify_otp_returns(verify_otp_outcome(user_id, otp))
                  IN  /\ verify_otp_call(user_id, otp, db_ok)
                      /\ users' = [users EXCEPT ![user_id].is_verified = TRUE]
                      /\ IF "error" \in DOMAIN returns
                         THEN Done("POST /verify-otp", args, HTTPException(400, returns.message))
                         ELSE Done("POST /verify-otp", args,
                                   SuccessResponse([id |-> user_id, is_verified |-> TRUE],
                                                   "Email verified successfully."))
        /\ UNCHANGED <<now, customers, businesses, tokenVars, procs, nCreates, environment, forwarded>>

\* POST /verify-otp: 404 for an email no user has; otherwise verify_otp, whose
\* OTPException is answered 400; after a successful verify_otp,
\* UserRepository.verify_user sets is_verified and commits.  verify_user also
\* assigns UserStatus.ACTIVE, a name user_repository.py imports from
\* app.models.user, which does not define it: status_ok tells whether the name
\* resolves; when it does not, the call raises before its commit.
verify_otp_endpoint(email, otp, db_ok, status_ok) ==
    LET user == get_by_email(email)
        args == [email |-> email, otp |-> otp, entry |-> EntryRead(user)]
    IN  /\ IF user = {}
           THEN /\ Done("POST /verify-otp", args, HTTPException(404, "User not found"))
                /\ UNCHANGED <<users, redis, otps, sent>>
           ELSE \E user_id \in user :
                  LET returns == verify_otp_returns(verify_otp_outcome(user_id, otp))
                  IN  /\ verify_otp_call(user_id, otp, db_ok)
                      /\ IF "error" \in DOMAIN returns
                         THEN /\ Done("POST /verify-otp", args,
                                      HTTPException(400, returns.message))
                              /\ UNCHANGED users
                         ELSE IF status_ok
                         THEN /\ users' = [users EXCEPT ![user_id].is_verified = TRUE]
                              /\ Done("POST /verify-otp", args,
                                      SuccessResponse([id |-> user_id, is_verified |-> TRUE],
                                                      "Email verified successfully."))
                         ELSE /\ Done("POST /verify-otp", args,
                                      [status |-> 500, error |-> "ImportError"])
                              /\ UNCHANGED users
        /\ UNCHANGED <<now, customers, businesses, tokenVars, procs, nCreates, environment, forwarded>>

reset_password_before_verify(email, otp, new_password, db_ok, salt) ==
    LET user == get_by_email(email)
        args == [email |-> email, otp |-> otp, new_password |-> new_password,
                 entry |-> EntryRead(user)]
        password_hash == hash_password(new_password, salt)
    IN  /\ IF user = {}
           THEN /\ Done("POST /reset-password", args, HTTPException(404, "User not found"))
                /\ UNCHANGED <<users, redis, otps, sent>>
           ELSE \E user_id \in user :
                  LET returns == verify_otp_returns(verify_otp_outcome(user_id, otp))
                  IN  /\ verify_otp_call(user_id, otp, db_ok)
                      /\ IF "error" \in DOMAIN password_hash
                         THEN /\ Done("POST /reset-password", args,
                                      HTTPException(400, "Password validation failed"))
                              /\ UNCHANGED users
                         ELSE IF "error" \in DOMAIN returns
                         THEN /\ Done("POST /reset-password", args,
                                      HTTPException(400, returns.message))
                              /\ users' = [users EXCEPT ![user_id].password_hash = password_hash]
                         ELSE /\ users' = [users EXCEPT ![user_id].password_hash = password_hash]
                              /\ Done("POST /reset-password", args,
                                      SuccessResponse(<<>>, "Password reset successfully"))
        /\ UNCHANGED <<now, customers, businesses, tokenVars, procs, nCreates, environment, forwarded>>

\* POST /reset-password: 404 for an email no user has; otherwise verify_otp,
\* whose OTPException is answered 400; after a successful verify_otp,
\* AuthService.reset_password, whose ValidationException is answered 400 and
\* which otherwise overwrites the password hash.
reset_password(email, otp, new_password, db_ok, salt) ==
    LET user == get_by_email(email)
        args == [email |-> email, otp |-> otp, new_password |-> new_password,
                 entry |-> EntryRead(user)]
        password_hash == hash_password(new_password, salt)
    IN  /\ IF user = {}
           THEN /\ Done("POST /reset-password", args, HTTPException(404, "User not found"))
                /\ UNCHANGED <<users, redis, otps, sent>>
           ELSE \E user_id \in user :
                  LET returns == verify_otp_returns(verify_otp_outcome(user_id, otp))
                  IN  /\ verify_otp_call(user_id, otp, db_ok)
                      /\ IF "error" \in DOMAIN returns
                         THEN /\ Done("POST /reset-password", args,
                                      HTTPException(400, returns.message))
                              /\ UNCHANGED users
                         ELSE IF "error" \in DOMAIN password_hash
                         THEN /\ Done("POST /reset-password", args,
                                      HTTPException(400, "Password validation failed"))
                              /\ UNCHANGED users
                         ELSE /\ users' = [users EXCEPT ![user_id].password_hash = password_hash]
                              /\ Done("POST /reset-password", args,
                                      SuccessResponse(<<>>, "Password reset successfully"))
        /\ UNCHANGED <<now, customers, businesses, tokenVars, procs, nCreates, environment, forwarded>>

(***************************************************************************)
(* Role-gated access (core/dependencies.py).                               *)
(***************************************************************************)
\* The Authorization header of a request: absent ({}), or "Bearer <token>"
\* with a token the client can present ({token}).
Authorizations == {{}} \cup {{token} : token \in Presentable}

\* security = HTTPBearer(), of the pinned fastapi 0.104.1: a request without
\* an Authorization header is refused with 403 "Not authenticated" before the
\* dependency that asked for the credentials runs; otherwise the credentials
\* are the token.
HTTPBearer(authorization) ==
    IF authorization = {}
    THEN HTTPException(403, "Not authenticated")
    ELSE [credentials |-> CHOOSE token \in authorization : TRUE]

\* get_current_user: validate_token on the bearer token; None becomes 401
\* "Invalid or expired token"; otherwise the user.
get_current_user(authorization) ==
    LET credentials == HTTPBearer(authorization)
    IN  IF "status" \in DOMAIN credentials THEN credentials
        ELSE LET user == ValidateResult(credentials.credentials)
             IN  IF user = None
                 THEN HTTPException(401, "Invalid or expired token")
                 ELSE [user |-> user]

\* get_current_active_customer and get_current_active_business: the current
\* user, refused with 403 unless its user_type is the one asked for.
current_active(authorization, user_type, detail) ==
    LET current_user == get_current_user(authorization)
    IN  IF "status" \in DOMAIN current_user THEN current_user
        ELSE IF users[current_user.user].user_type # user_type
        THEN HTTPException(403, detail)
        ELSE current_user

\* A request to an endpoint that depends on get_current_active_customer.
get_current_active_customer(authorization) ==
    /\ Done("get_current_active_customer", [authorization |-> authorization],
            current_active(authorization, "CUSTOMER",
                           "Not authorized. Customer access required."))
    /\ UNCHANGED <<now, acctVars, tokenVars, otpVars>>

\* A request to an endpoint that depends on get_current_active_business.
get_current_active_business(authorization) ==
    /\ Done("get_current_active_business", [authorization |-> authorization],
            current_active(authorization, "BUSINESS_OWNER",
                           "Not authorized. Business owner access required."))
    /\ UNCHANGED <<now, acctVars, tokenVars, otpVars>>

(***************************************************************************)
(* Rate limiting (RateLimitMiddleware.dispatch, core/middleware.py), with  *)
(* Redis answering every call.  A request is split at its Redis calls:     *)
(* GET, INCR, EXPIRE; the time unit is the minute.                         *)
(***************************************************************************)
RATE_LIMIT_PER_MINUTE == 60

\* redis_client.expire(rate_limit_key, 60): one minute.
RateWindow == 1

RateMaxTime == 2

\* The expiry instant of a key that has no time to live.
NoExpiry == RateMaxTime + RateWindow + 1

RateIps == {"ip1"}

\* rate_limit_key = f"rate_limit:{client_ip}"
rate_limit_key(client_ip) == <<"rate_limit:", client_ip>>

\* Redis keeps a counter as its decimal string; int() reads it back.
decimal(n) == <<"decimal", n>>
int(value) == value[2]

\* INCR: the counter plus one, a missing key counting as 0 and being created
\* without a time to live; the time to live of an existing key stays.
redis_incr(key) ==
    redis' = [k \in DOMAIN redis \cup {key} |->
                IF k # key THEN redis[k]
                ELSE IF key \in DOMAIN redis
                THEN [redis[key] EXCEPT !.value = decimal(int(@) + 1)]
                ELSE [value |-> decimal(1), expire_at |-> NoExpiry]]

\* EXPIRE: the key, if there is one, expires ttl from now.
redis_expire(key, ttl) ==
    redis' = [k \in DOMAIN redis |->
                IF k = key THEN [redis[k] EXCEPT !.expire_at = now + ttl] ELSE redis[k]]

Response(status_code, content) == [status |-> status_code, content |-> content]

\* dispatch, lines 49-70: GET the counter, a missing key reading as 0; at
\* rate_limit or above the request is answered 429; otherwise it goes on (the
\* count it read is not used again).
dispatch(p, client_ip) ==
    LET key == rate_limit_key(client_ip)
        current_count == IF key \in DOMAIN redis THEN int(redis[key].value) ELSE 0
    IN  /\ procs[p].pc = "idle"
        /\ IF current_count >= RATE_LIMIT_PER_MINUTE
           THEN /\ Done("dispatch", [client_ip |-> client_ip, current_count |-> current_count],
                        Response(429, "Rate limit exceeded"))
                /\ UNCHANGED procs
           ELSE /\ procs' = [procs EXCEPT ![p] = [pc |-> "incr", client_ip |-> client_ip]]
                /\ UNCHANGED lastOp
        /\ UNCHANGED <<now, acctVars, tokenVars, redis, otps, sent, nCreates, environment, forwarded>>

\* dispatch, line 73: INCR.
dispatch_incr(p) ==
    /\ procs[p].pc = "incr"
    /\ redis_incr(rate_limit_key(procs[p].client_ip))
    /\ procs' = [procs EXCEPT ![p].pc = "expire"]
    /\ UNCHANGED <<now, acctVars, tokenVars, lastOp, otps, sent, nCreates, environment, forwarded>>

\* dispatch, lines 74-81: EXPIRE, then the request is passed on (call_next).
dispatch_expire(p) ==
    /\ procs[p].pc = "expire"
    /\ redis_expire(rate_limit_key(procs[p].client_ip), RateWindow)
    /\ forwarded' = [at |-> now, n |-> IF forwarded.at = now THEN forwarded.n + 1 ELSE 1]
    /\ Done("dispatch", [client_ip |-> procs[p].client_ip], Response(200, "call_next"))
    /\ procs' = [procs EXCEPT ![p] = Idle]
    /\ UNCHANGED <<now, acctVars, tokenVars, otps, sent, nCreates, environment>>

RateTick == Advance(RateMaxTime)

(***************************************************************************)
(* Initial state: the store after two registrations, no token, no OTP.     *)
(***************************************************************************)
InitStore ==
    /\ now = 0
    /\ users = [u \in UserIds |->
                  IF u = "u1"
                  THEN [email |-> "a@x", password_hash |-> bcrypt_hashpw("pw1", "salt1"),
                        phone |-> None, user_type |-> "CUSTOMER",
                        is_verified |-> FALSE, last_login |-> None]
                  ELSE [email |-> "b@x", password_hash |-> bcrypt_hashpw("pw2", "salt2"),
                        phone |-> None, user_type |-> "BUSINESS_OWNER",
                        is_verified |-> FALSE, last_login |-> None]]
    /\ customers = {[user_id |-> "u1"]}
    /\ businesses = {[user_id |-> "u2", have_subscription |-> FALSE]}
    /\ accessTokens = {}
    /\ generated = <<>>
    /\ revoked = {}
    /\ revokedAll = {}
    /\ lastOp = [op |-> "init", args |-> <<>>, result |-> None]
    /\ redis = <<>>
    /\ otps = <<>>
    /\ procs = [p \in ProcIds |-> Idle]
    /\ sent = <<>>
    /\ nCreates = 0
    /\ forwarded = [at |-> 0, n |-> 0]

\* ENVIRONMENT defaults to "local".
Init == InitStore /\ environment = "local"

\* The OTP Engine in either environment.
OtpInit == InitStore /\ environment \in Environments

TokenStoreNext ==
    \/ \E u \in DOMAIN users, ip \in Ips, ttl \in Ttls : create_access_token(u, ip, ttl)
    \/ \E t \in Presentable, ip \in Ips : validate_token(t, ip)
    \/ \E t \in Presentable : revoke_token(t)
    \/ \E u \in DOMAIN users : revoke_all_user_tokens(u)
    \/ cleanup_expired_tokens

\* The Token Store over time.
Next ==
    \/ Tick
    \/ TokenStoreNext

Spec == Init /\ [][Next]_vars

\* Role-gated requests over the Token Store.
GateNext ==
    \/ Tick
    \/ TokenStoreNext
    \/ \E authorization \in Authorizations : get_current_active_customer(authorization)
    \/ \E authorization \in Authorizations : get_current_active_business(authorization)

GateSpec == Init /\ [][GateNext]_vars

\* Requests from one client address at concurrent workers.
RateNext ==
    \/ RateTick
    \/ \E p \in ProcIds, client_ip \in RateIps : dispatch(p, client_ip)
    \/ \E p \in ProcIds : dispatch_incr(p)
    \/ \E p \in ProcIds : dispatch_expire(p)

RateSpec == Init /\ [][RateNext]_vars

\* The Account Service over the Token Store.
AccountNext ==
    \/ TokenStoreNext
    \/ \E e \in Emails, p \in Passwords : AuthService_login(e, p)
    \/ \E e \in Emails, p \in Passwords, ip \in Ips : login(e, p, ip)
    \/ \E t \in Presentable : AuthService_logout(t)
    \/ \E b \in BOOLEAN, t \in Presentable : logout(b, t)

AccountSpec == Init /\ [][AccountNext]_vars

\* The Token Store over time, with password resets.
ResetNext ==
    \/ Tick
    \/ TokenStoreNext
    \/ \E u \in ResetUserIds, p \in ResetPasswords :
         AuthService_reset_password(u, p, "salt3")

ResetSpec == Init /\ [][ResetNext]_vars

\* The Credential Codec: hash_password and verify_password on their own.
CodecNext ==
    \/ \E password \in CodecPasswords, salt \in Salts : call_hash_password(password, salt)
    \/ \E plain_password \in CodecPasswords : call_verify_password(plain_password)

CodecSpec == Init /\ [][CodecNext]_vars

\* Code generation on its own.
GenerateNext == \E otp_length \in OtpLengths : call_generate_otp(otp_length)

GenerateSpec == Init /\ [][GenerateNext]_vars

\* The store before any registration.
RegInit ==
    /\ now = 0
    /\ users = <<>>
    /\ customers = {}
    /\ businesses = {}
    /\ accessTokens = {}
    /\ generated = <<>>
    /\ revoked = {}
    /\ revokedAll = {}
    /\ lastOp = [op |-> "init", args |-> <<>>, result |-> None]
    /\ redis = <<>>
    /\ otps = <<>>
    /\ procs = [p \in ProcIds |-> Idle]
    /\ sent = <<>>
    /\ nCreates = 0
    /\ forwarded = [at |-> 0, n |-> 0]
    /\ environment = "local"

\* Registration requests, one at a time.
RegisterNext ==
    \E email \in RegEmails, password \in RegPasswords, phone \in Phones,
       user_type \in UserTypes, have_subscription \in Subscriptions :
        register(email, password, phone, user_type, have_subscription)

RegisterSpec == RegInit /\ [][RegisterNext]_vars

\* Registrations and password resets from an empty store, with calls of
\* hash_password on its own.
PasswordNext ==
    \/ \E email \in RegEmails, password \in RegPasswords, user_type \in UserTypes :
         register(email, password, None, user_type, {})
    \/ \E u \in ResetUserIds, p \in ResetPasswords :
         AuthService_reset_password(u, p, "salt3")
    \/ \E password \in CodecPasswords : call_hash_password(password, "salt4")

PasswordSpec == RegInit /\ [][PasswordNext]_vars

\* Registration requests at concurrent workers: every interleaving of the
\* database statements of up to MaxProcs register calls.
RegisterConcNext ==
    \/ \E p \in 1..MaxProcs, email \in RegEmails, phone \in Phones, user_type \in UserTypes :
         register_check(p, email, "pw1", phone, user_type, {})
    \/ \E p \in 1..MaxProcs : register_insert(p)

RegisterConcSpec == RegInit /\ [][RegisterConcNext]_vars

\* The OTP Engine, one request at a time: a request arrives, and the clock
\* advances, only while no other request is in flight.
OtpSeqNext ==
    \/ InFlight = {} /\ OtpTick
    \/ InFlight = {} /\ OtpStart(1)
    \/ OtpStep(1)

OtpSeqSpec == OtpInit /\ [][OtpSeqNext]_vars

\* The password-reset flow, one request at a time: POST /forgot-password
\* creates the codes, verify_otp consumes them.
ForgotNext ==
    \/ InFlight = {} /\ OtpTick
    \/ InFlight = {} /\ \E email \in ForgotEmails, db_ok \in BOOLEAN, smtp_ok \in BOOLEAN :
                           forgot_password(1, email, db_ok, smtp_ok)
    \/ InFlight = {} /\ \E u \in OtpUsers, code \in generate_otp : verify_otp(1, u, code)
    \/ OtpStep(1)

ForgotSpec == OtpInit /\ [][ForgotNext]_vars

\* Email verification, one request at a time: POST /send-otp creates the
\* codes, verify_otp consumes them.
SendOtpNext ==
    \/ InFlight = {} /\ OtpTick
    \/ InFlight = {} /\ \E email \in SendOtpEmails, db_ok \in BOOLEAN, smtp_ok \in BOOLEAN :
                           send_otp(1, email, db_ok, smtp_ok)
    \/ InFlight = {} /\ \E u \in OtpUsers, code \in generate_otp : verify_otp(1, u, code)
    \/ OtpStep(1)

SendOtpSpec == OtpInit /\ [][SendOtpNext]_vars

\* The OTP Engine with its periodic sweep of the audit rows, one request at a
\* time.
CleanupNext ==
    \/ InFlight = {} /\ CleanupTick
    \/ InFlight = {} /\ \E u \in OtpUsers, db_ok \in BOOLEAN :
                           create_and_send_otp(1, u, "verification", db_ok, TRUE)
    \/ InFlight = {} /\ \E u \in OtpUsers, code \in generate_otp : verify_otp(1, u, code)
    \/ OtpStep(1)
    \/ InFlight = {} /\ \E db_ok \in BOOLEAN : cleanup_expired_otps(db_ok)

CleanupSpec == Init /\ [][CleanupNext]_vars

\* The OTP endpoints, one request at a time, in the default environment.
AuthFlowPasswords == {"pw2", "pw72chars"}

AuthFlowNext ==
    \/ OtpTick
    \/ \E email \in SendOtpEmails : send_otp(1, email, TRUE, TRUE)
    \/ \E email \in ForgotEmails : forgot_password(1, email, TRUE, TRUE)
    \/ \E email \in SendOtpEmails, otp \in generate_otp, status_ok \in BOOLEAN :
         verify_otp_endpoint(email, otp, TRUE, status_ok)
    \/ \E email \in ForgotEmails, otp \in generate_otp, new_password \in AuthFlowPasswords :
         reset_password(email, otp, new_password, TRUE, "salt3")

AuthFlowSpec == Init /\ [][AuthFlowNext]_vars

\* The store after the registration of the business owner of InitStore.
VerifyInit ==
    /\ now = 0
    /\ users = [u \in {"u2"} |->
                  [email |-> "b@x", password_hash |-> bcrypt_hashpw("pw2", "salt2"),
                   phone |-> None, user_type |-> "BUSINESS_OWNER",
                   is_verified |-> FALSE, last_login |-> None]]
    /\ customers = {}
    /\ businesses = {[user_id |-> "u2", have_subscription |-> FALSE]}
    /\ accessTokens = {}
    /\ generated = <<>>
    /\ revoked = {}
    /\ revokedAll = {}
    /\ lastOp = [op |-> "init", args |-> <<>>, result |-> None]
    /\ redis = <<>>
    /\ otps = <<>>
    /\ procs = [p \in ProcIds |-> Idle]
    /\ sent = <<>>
    /\ nCreates = 0
    /\ forwarded = [at |-> 0, n |-> 0]
    /\ environment = "local"

VerifyEmails == {"a@x", "b@x"}

\* Accounts from registration to verification, one request at a time:
\* register creates a second account, POST /send-otp creates its codes,
\* POST /verify-otp and POST /reset-password are asked about both accounts.
VerifyNext ==
    \/ OtpTick
    \/ register("a@x", "pw1", None, "CUSTOMER", {})
    \/ send_otp(1, "a@x", TRUE, TRUE)
    \/ \E email \in VerifyEmails, otp \in generate_otp, status_ok \in BOOLEAN :
         verify_otp_endpoint(email, otp, TRUE, status_ok)
    \/ \E email \in VerifyEmails, otp \in generate_otp :
         reset_password(email, otp, "pw2", TRUE, "salt3")

VerifySpec == VerifyInit /\ [][VerifyNext]_vars

\* A request arrives at one of the concurrent workers.
OtpConcStart(p) ==
    \/ \E u \in OtpUsers, smtp_ok \in BOOLEAN :
         create_and_send_otp(p, u, "verification", TRUE, smtp_ok)
    \/ \E u \in OtpUsers, code \in generate_otp : verify_otp(p, u, code)

\* A concurrent verify makes its second Redis call and ends.
OtpConcStep(p) ==
    \/ verify_exhausted(p)
    \/ verify_mismatch(p, TRUE)
    \/ verify_match(p, TRUE)

\* The OTP Engine under concurrent requests: every interleaving of the Redis
\* calls of up to MaxProcs requests and of the clock, in the default
\* environment with the durable store available.
OtpNext ==
    \/ OtpTick
    \/ \E p \in ProcIds : OtpConcStart(p)
    \/ \E q \in ProcIds : OtpConcStep(q)

OtpSpec == Init /\ [][OtpNext]_vars

(***************************************************************************)
(* Token Store claims (checked under Spec).                                *)
(***************************************************************************)
\* C1: validate(t) returns the user t was issued to for as long as t's record
\* is unexpired and not revoked, and returns None in every validate that
\* follows a completed revoke(t).
C1_ValidUntilRevoked ==
    lastOp.op = "validate" =>
        LET t == lastOp.args.token
        IN  /\ (/\ t \in DOMAIN generated
                /\ t \notin revoked
                /\ t \notin revokedAll
                /\ generated[t].expires_at > now)
               => lastOp.result = generated[t].user_id
            /\ t \in revoked => lastOp.result = None

\* C1 witness: an issued, still unexpired token is validated after its revoke.
C1_Witness ==
    /\ lastOp.op = "validate"
    /\ lastOp.args.token \in DOMAIN generated
    /\ lastOp.args.token \in revoked
    /\ generated[lastOp.args.token].expires_at > now
    /\ lastOp.result = None

\* C4: validate never returns a user for a token whose record has expires_at
\* in the past, whether or not the record has been swept.
C4_ExpiredNeverValidates ==
    lastOp.op = "validate" =>
        \A r \in accessTokens :
            (r.token_hash = hash_token(lastOp.args.token) /\ r.expires_at < now)
                => lastOp.result = None

\* C4 witness: a validate of a token whose expired record is still in the table.
C4_Witness ==
    /\ lastOp.op = "validate"
    /\ \E r \in accessTokens :
          r.token_hash = hash_token(lastOp.args.token) /\ r.expires_at < now
    /\ lastOp.result = None

\* C5: after revokeAll(u) every token issued to u before it validates to None,
\* now and later, while the records of every other user and the result of
\* validating their tokens are what they were before the call.
C5_RevokeAllFrame ==
    /\ [](lastOp.op = "validate" /\ lastOp.args.token \in revokedAll
            => lastOp.result = None)
    /\ [][lastOp'.op = "revokeAll" =>
            LET u == lastOp'.args.user_id
            IN  /\ {r \in accessTokens' : r.user_id = u} = {}
                /\ {r \in accessTokens' : r.user_id # u}
                     = {r \in accessTokens : r.user_id # u}
                /\ \A t \in DOMAIN generated :
                      IF generated[t].user_id = u
                      THEN ValidateResult(t)' = None
                      ELSE ValidateResult(t)' = ValidateResult(t)]_vars

\* C5 witness: revokeAll(u) removed a record of u while another user holds a
\* token that still validates.
C5_Witness ==
    /\ lastOp.op = "revokeAll"
    /\ lastOp.result > 0
    /\ \E t \in DOMAIN generated :
          /\ generated[t].user_id # lastOp.args.user_id
          /\ ValidateResult(t) = generated[t].user_id

(***************************************************************************)
(* Account Service claims (checked under AccountSpec).                     *)
(***************************************************************************)
\* Whether login is given a registered email with its password.
CredentialsOk(email, password) ==
    \E u \in get_by_email(email) : verify_password(password, users[u].password_hash)

\* C6: a login that fails for an unknown email and one that fails for a wrong
\* password end with the same error kind and the same message.
C6_LoginFailsAlike ==
    (lastOp.op = "login" /\ ~CredentialsOk(lastOp.args.email, lastOp.args.password)) =>
        /\ lastOp.result.error = "AuthenticationException"
        /\ \A e \in Emails, p \in Passwords :
              ~CredentialsOk(e, p) => login_result(e, p) = lastOp.result

\* C6 witness: a login with an unknown email has failed, and some registered
\* email with a wrong password exists to compare it with.
C6_Witness ==
    /\ lastOp.op = "login"
    /\ get_by_email(lastOp.args.email) = {}
    /\ lastOp.result.error = "AuthenticationException"
    /\ \E e \in Emails, p \in Passwords :
          get_by_email(e) # {} /\ ~CredentialsOk(e, p)

\* C7: login with a registered email and its password succeeds, leaves exactly
\* one new AccessToken record owned by that user, whose token validates to the
\* user, and sets the user's last_login.
C7_LoginIssuesToken ==
    (lastOp.op = "login" /\ CredentialsOk(lastOp.args.email, lastOp.args.password)) =>
        LET u == CHOOSE x \in get_by_email(lastOp.args.email) : TRUE
        IN  /\ "access_token" \in DOMAIN lastOp.result
            /\ ValidateResult(lastOp.result.access_token) = u
            /\ users[u].last_login # None

\* C8: logout(t) acknowledges, and afterwards validate(t) returns None,
\* whether t was valid, already revoked or never issued.
C8_LogoutRevokes ==
    lastOp.op = "logout" =>
        /\ lastOp.result = [ok |-> TRUE]
        /\ ValidateResult(lastOp.args.token) = None

(***************************************************************************)
(* OTP Engine claims, one request at a time (checked under OtpSeqSpec).    *)
(***************************************************************************)
\* The last completed call was verify(u, x), after a createAndSend(u) that
\* put a code on record.
VerifyDone ==
    /\ lastOp.op = "verify"
    /\ lastOp.args.user_id \in DOMAIN sent
    /\ sent[lastOp.args.user_id].wrong + sent[lastOp.args.user_id].right >= 1

\* The history of the user of the last completed call.
Hist == sent[lastOp.args.user_id]

\* The configured expiry window of the code on record has not run out.
InWindow == now < Hist.at + OtpExpiry

\* C2: after createAndSend(u) produced c, the first verify(u, c) succeeds (the
\* entry being neither exhausted nor expired) and removes the entry, and every
\* later verify(u, c) before a new createAndSend fails with "OTP expired or
\* not found".
C2_OneSuccessPerCode ==
    VerifyDone /\ lastOp.args.otp_code = Hist.code =>
        /\ (Hist.right = 1 /\ Hist.wrong < OTP_MAX_ATTEMPTS /\ InWindow
              => /\ lastOp.result = [ok |-> TRUE]
                 /\ ~redis_exists(lastOp.args.user_id))
        /\ (Hist.right >= 2 => lastOp.result = OTPException("OTP expired or not found"))

C2_Witness ==
    /\ VerifyDone
    /\ lastOp.args.otp_code = Hist.code
    /\ Hist.right = 2 /\ Hist.wrong = 0 /\ InWindow
    /\ lastOp.result = OTPException("OTP expired or not found")

\* C3: after createAndSend(u), each of OTP_MAX_ATTEMPTS consecutive verify calls
\* with a wrong code fails with "Invalid OTP code"; the verify after them fails
\* with "Maximum OTP attempts exceeded", whether its code is wrong or right,
\* and leaves no cache entry.
C3_AttemptsExhaust ==
    VerifyDone /\ InWindow =>
        LET wrongCode == lastOp.args.otp_code # Hist.code
            exceeded == /\ lastOp.result = OTPException("Maximum OTP attempts exceeded")
                        /\ ~redis_exists(lastOp.args.user_id)
        IN  /\ (wrongCode /\ Hist.right = 0 /\ Hist.wrong <= OTP_MAX_ATTEMPTS
                  => lastOp.result = OTPException("Invalid OTP code"))
            /\ (wrongCode /\ Hist.right = 0 /\ Hist.wrong = OTP_MAX_ATTEMPTS + 1 => exceeded)
            /\ (~wrongCode /\ Hist.right = 1 /\ Hist.wrong = OTP_MAX_ATTEMPTS => exceeded)

C3_Witness ==
    /\ VerifyDone /\ InWindow
    /\ lastOp.args.otp_code = Hist.code
    /\ Hist.right = 1 /\ Hist.wrong = OTP_MAX_ATTEMPTS
    /\ lastOp.result = OTPException("Maximum OTP attempts exceeded")
    /\ ~redis_exists(lastOp.args.user_id)

\* C9: when createAndSend(u) has completed with code c2 (no verify in flight),
\* the cache entry of u is c2 with attempts 0, whatever entry it replaced; the
\* first verify after a second createAndSend then fails with "Invalid OTP
\* code" for any other code (the replaced one included) and succeeds for c2.
C9_RecreateResets ==
    /\ (lastOp.op = "create" /\ InFlight = {} =>
             /\ redis_exists(lastOp.args.user_id)
             /\ json_loads(redis_get(lastOp.args.user_id)).code = lastOp.args.otp_code
             /\ json_loads(redis_get(lastOp.args.user_id)).attempts = 0)
    /\ (VerifyDone /\ nCreates >= 2 /\ InWindow /\ Hist.wrong + Hist.right = 1 =>
             IF lastOp.args.otp_code = Hist.code
             THEN lastOp.result = [ok |-> TRUE]
             ELSE lastOp.result = OTPException("Invalid OTP code"))

\* createAndSend has just replaced an entry of another code with counted
\* attempts.
C9_Witness ==
    /\ lastOp.op = "create"
    /\ InFlight = {}
    /\ nCreates = 2
    /\ \E entry \in lastOp.args.replaced :
         entry.attempts > 0 /\ entry.code # lastOp.args.otp_code
    /\ json_loads(redis_get(lastOp.args.user_id)).code = lastOp.args.otp_code
    /\ json_loads(redis_get(lastOp.args.user_id)).attempts = 0

(***************************************************************************)
(* OTP Engine claims under concurrent requests (checked under OtpSpec).    *)
(***************************************************************************)
\* C10: under every interleaving of createAndSend and verify for one user, the
\* cache entry of the user, while there is one, holds the code that the latest
\* createAndSend wrote, never an earlier one.
C10_CacheHoldsNewestCode ==
    \A u \in DOMAIN redis : json_loads(redis_get(u)).code = sent[u].code

\* C11: a mismatched verify leaves the instant at which the cache entry expires
\* where createAndSend put it (creation time plus the expiry window), so that
\* no verify succeeds at or after that instant.
C11_ExpiryUnchanged ==
    /\ \A u \in DOMAIN redis :
         redis[u].expire_at = json_loads(redis_get(u)).created_at + OtpExpiry
    /\ (VerifyDone /\ lastOp.result = [ok |-> TRUE] => now < Hist.at + OtpExpiry)

\* C12: under every interleaving of createAndSend and verify calls, the
\* attempts counter of every cache entry is between 0 and OTP_MAX_ATTEMPTS.
C12_AttemptsBounded ==
    \A u \in DOMAIN redis :
        json_loads(redis_get(u)).attempts \in 0..OTP_MAX_ATTEMPTS

\* An entry at the maximum while a mismatched verify that read it earlier is
\* still to make its cache write.
C12_Witness ==
    \E u \in DOMAIN redis, p \in ProcIds :
        /\ json_loads(redis_get(u)).attempts = OTP_MAX_ATTEMPTS
        /\ procs[p].pc = "mismatch"
        /\ procs[p].user_id = u

(***************************************************************************)
(* Registration claims (checked under RegisterSpec).                       *)
(***************************************************************************)
\* C13: register with an email that already belongs to a user fails with
\* "Email already registered", whatever the roles and whatever the phone, the
\* subscription flag and the password of the request, and leaves the users,
\* customers and businesses tables unchanged.
C13_DuplicateEmail ==
    [][(lastOp'.op = "register" /\ get_by_email(lastOp'.args.email) # {}) =>
          /\ lastOp'.result = ValidationException("Email already registered")
          /\ UNCHANGED acctVars]_vars

\* A register was refused for its email although its phone is taken too, its
\* flag does not fit its role, its password is too long, and the holder of the
\* email has another role.
C13_Witness ==
    /\ lastOp.op = "register"
    /\ lastOp.result = ValidationException("Email already registered")
    /\ lastOp.args.phone # None /\ get_by_phone(lastOp.args.phone) # {}
    /\ lastOp.args.user_type = "CUSTOMER" /\ lastOp.args.have_subscription # {}
    /\ hash_password_raises(lastOp.args.password)
    /\ \E u \in get_by_email(lastOp.args.email) : users[u].user_type # lastOp.args.user_type

\* C14: a register that succeeds adds one User row, with is_verified false and
\* the requested role, and exactly the profile row of that role: a customer
\* row for CUSTOMER, a business row carrying the supplied have_subscription
\* (false when omitted) for BUSINESS_OWNER, no row for ADMIN.
C14_RegisterCreatesRows ==
    [][(lastOp'.op = "register" /\ lastOp'.result.error = None) =>
          LET id == lastOp'.result.user
              user_type == lastOp'.args.user_type
          IN  /\ id \notin DOMAIN users
              /\ DOMAIN users' = DOMAIN users \cup {id}
              /\ \A u \in DOMAIN users : users'[u] = users[u]
              /\ users'[id].is_verified = FALSE
              /\ users'[id].user_type = user_type
              /\ users'[id].email = lastOp'.args.email
              /\ customers' = customers \cup
                    (IF user_type = "CUSTOMER" THEN {[user_id |-> id]} ELSE {})
              /\ businesses' = businesses \cup
                    (IF user_type = "BUSINESS_OWNER"
                     THEN {[user_id |-> id,
                            have_subscription |-> (TRUE \in lastOp'.args.have_subscription)]}
                     ELSE {})]_vars

\* An ADMIN and a BUSINESS_OWNER without the flag have registered: the one has
\* no profile row, the other a business row with have_subscription false.
C14_Witness ==
    /\ lastOp.op = "register"
    /\ lastOp.result.error = None
    /\ lastOp.args.user_type = "BUSINESS_OWNER"
    /\ lastOp.args.have_subscription = {}
    /\ [user_id |-> lastOp.result.user, have_subscription |-> FALSE] \in businesses
    /\ \E u \in DOMAIN users :
          /\ users[u].user_type = "ADMIN"
          /\ \A c \in customers : c.user_id # u
          /\ \A b \in businesses : b.user_id # u

\* C15: in every reachable state, the state after a register whose profile
\* insert failed included, every CUSTOMER user has its customer row and every
\* BUSINESS_OWNER user its business row.
C15_NoUserWithoutProfile ==
    \A u \in DOMAIN users :
        /\ (users[u].user_type = "CUSTOMER" => \E c \in customers : c.user_id = u)
        /\ (users[u].user_type = "BUSINESS_OWNER" => \E b \in businesses : b.user_id = u)

\* C16: register for CUSTOMER or ADMIN with have_subscription supplied, true or
\* false, fails with a ValidationException and creates no row; register for
\* BUSINESS_OWNER is not refused for the flag.
C16_FlagOnlyForBusiness ==
    [][lastOp'.op = "register" =>
          /\ (lastOp'.args.user_type # "BUSINESS_OWNER" /\ lastOp'.args.have_subscription # {}
                => /\ lastOp'.result.error = "ValidationException"
                   /\ UNCHANGED acctVars)
          /\ ((/\ lastOp'.args.user_type = "BUSINESS_OWNER"
               /\ get_by_email(lastOp'.args.email) = {}
               /\ (lastOp'.args.phone = None \/ get_by_phone(lastOp'.args.phone) = {})
               /\ ~hash_password_raises(lastOp'.args.password))
                => lastOp'.result.error # "ValidationException")]_vars

\* An ADMIN register whose only defect is a supplied have_subscription = false
\* was refused for it.
C16_Witness ==
    /\ lastOp.op = "register"
    /\ lastOp.args.user_type = "ADMIN"
    /\ lastOp.args.have_subscription = {FALSE}
    /\ lastOp.result =
          ValidationException("have_subscription field is only valid for business owners")

(***************************************************************************)
(* Delivery and audit failures of create_and_send_otp                      *)
(***************************************************************************)

\* C17: whenever the email service failed to deliver the code, the completed
\* create_and_send_otp raised the OTPException "Failed to send OTP email" and
\* did not return the code, whatever the environment.
C17_DeliveryFailureFails ==
    (lastOp.op = "create" /\ ~lastOp.args.delivered)
        => lastOp.result = OTPException("Failed to send OTP email")

\* The cache entry of the user of the last completed call.
Entry == json_loads(redis_get(lastOp.args.user_id))

\* C18: when create_and_send_otp has completed (no verify in flight), the
\* entry it wrote is in the cache with its code, attempts 0 and the full time
\* to live, whether or not the audit insert and the delivery succeeded; the
\* call never fails for the audit insert, and returns the code whenever the
\* delivery succeeded. A verify with the code of a create whose delivery
\* failed, completing as the next call, succeeds and removes the entry.
C18_CacheWriteStands ==
    /\ []((lastOp.op = "create" /\ InFlight = {}) =>
             (/\ redis_exists(lastOp.args.user_id)
              /\ Entry.code = lastOp.args.otp_code
              /\ Entry.attempts = 0
              /\ redis[lastOp.args.user_id].expire_at = Hist.at + OtpExpiry
              /\ lastOp.result \in {[ok |-> lastOp.args.otp_code],
                                    OTPException("Failed to send OTP email")}
              /\ (lastOp.args.delivered => lastOp.result = [ok |-> lastOp.args.otp_code])))
    /\ [][(/\ lastOp.op = "create"
           /\ ~lastOp.args.delivered
           /\ lastOp'.op = "verify"
           /\ lastOp'.args = VerifyArgs(lastOp.args.user_id, lastOp.args.otp_code))
          => (/\ lastOp'.result = [ok |-> TRUE]
              /\ ~redis_exists(lastOp.args.user_id)')]_vars

\* A create whose audit insert and delivery both failed, and which raised,
\* left its entry; a verify presenting its code has read the entry and found
\* the code matching.
C18_Witness ==
    /\ lastOp.op = "create"
    /\ ~lastOp.args.stored /\ ~lastOp.args.delivered
    /\ lastOp.result = OTPException("Failed to send OTP email")
    /\ otps = <<>>
    /\ procs[1].pc = "match"
    /\ procs[1].otp_code = lastOp.args.otp_code
    /\ Entry.attempts = 0

(***************************************************************************)
(* The cache alone decides a verification                                  *)
(***************************************************************************)

\* What verify_otp answers for a cache and a presented code.
CacheVerdict(cache, user_id, otp_code) ==
    IF user_id \notin DOMAIN cache THEN OTPException("OTP expired or not found")
    ELSE LET entry == json_loads(cache[user_id].value)
         IN  IF entry.attempts >= OTP_MAX_ATTEMPTS
             THEN OTPException("Maximum OTP attempts exceeded")
             ELSE IF entry.code # otp_code THEN OTPException("Invalid OTP code")
             ELSE [ok |-> TRUE]

\* The cache verify_otp leaves at time t for a cache and a presented code.
CacheAfterVerify(cache, user_id, otp_code, t) ==
    IF user_id \notin DOMAIN cache THEN cache
    ELSE LET entry == json_loads(cache[user_id].value)
         IN  IF entry.attempts < OTP_MAX_ATTEMPTS /\ entry.code # otp_code
             THEN [cache EXCEPT ![user_id] =
                     [value |-> json_dumps([entry EXCEPT !.attempts = @ + 1]),
                      expire_at |-> t + OtpExpiry]]
             ELSE [k \in DOMAIN cache \ {user_id} |-> cache[k]]

\* C19: every step that completes a verify_otp call gives the result, and
\* leaves the cache, that the cache before the step and the presented code
\* alone determine: neither the audit rows nor a database failure during the
\* call enter into them.
C19_CacheAloneDecides ==
    [][(lastOp'.op = "verify" /\ procs'[1].pc = "idle")
       => (/\ lastOp'.result =
                CacheVerdict(redis, lastOp'.args.user_id, lastOp'.args.otp_code)
           /\ redis' =
                CacheAfterVerify(redis, lastOp'.args.user_id, lastOp'.args.otp_code, now))]_vars

\* A verify succeeded and removed the entry while the database update failed:
\* the audit row of the code is still active.
C19_Witness ==
    /\ lastOp.op = "verify"
    /\ lastOp.result = [ok |-> TRUE]
    /\ ~redis_exists(lastOp.args.user_id)
    /\ get_active_by_user(lastOp.args.user_id) # 0
    /\ otps[get_active_by_user(lastOp.args.user_id)].code = lastOp.args.otp_code

(***************************************************************************)
(* POST /forgot-password (checked under ForgotSpec)                        *)
(***************************************************************************)

\* C20: every answer of POST /forgot-password is the acknowledgement given for
\* an email no user has, whether or not the email belongs to a user and
\* whether or not the code was delivered.
C20_SameResponse ==
    lastOp.op = "POST /forgot-password"
        => lastOp.result = SuccessResponse(<<>>, "If the email exists, an OTP has been sent.")

(***************************************************************************)
(* Password reset (checked under ResetSpec)                                *)
(***************************************************************************)

\* C21: a step of reset_password(u, new_password) leaves the access_tokens
\* table as it was, so that every presentable token validates to the same
\* user after it as before; of the users table it changes at most the
\* password_hash of u; for an id no row has it raises
\* ResourceNotFoundException and changes nothing.
C21_ResetFrame ==
    [][lastOp'.op = "reset_password"
       => (/\ accessTokens' = accessTokens
           /\ \A t \in Presentable : ValidateResult(t)' = ValidateResult(t)
           /\ DOMAIN users' = DOMAIN users
           /\ \A u \in DOMAIN users :
                IF u = lastOp'.args.user_id
                THEN users'[u] = [users[u] EXCEPT !.password_hash = users'[u].password_hash]
                ELSE users'[u] = users[u]
           /\ (lastOp'.result = [ok |-> TRUE]
                 => verify_password(lastOp'.args.new_password,
                                    users'[lastOp'.args.user_id].password_hash))
           /\ (lastOp'.args.user_id \notin DOMAIN users
                 => (/\ lastOp'.result = ResourceNotFoundException("User", lastOp'.args.user_id)
                     /\ users' = users)))]_vars

\* A password was reset while a token of that user validates, and the token
\* still validates.
C21_Witness ==
    /\ lastOp.op = "reset_password"
    /\ lastOp.result = [ok |-> TRUE]
    /\ users[lastOp.args.user_id].password_hash.salt = "salt3"
    /\ \E t \in DOMAIN generated :
         /\ generated[t].user_id = lastOp.args.user_id
         /\ ValidateResult(t) = lastOp.args.user_id

(***************************************************************************)
(* Token Store: only digests are stored (checked under Spec)               *)
(***************************************************************************)

\* C22: every access_tokens row holds, in token_hash, the SHA-256 digest of a
\* token generate_simple_token returned for the row's user, and holds a user
\* id and an expiry instant besides: no plaintext token is stored.  A token
\* validates only if a row holds its digest, and revoke_token removes exactly
\* the rows that hold the digest of the presented token.
C22_OnlyDigestsStored ==
    /\ [](/\ \A r \in accessTokens :
               /\ DOMAIN r = {"user_id", "token_hash", "expires_at"}
               /\ r.user_id \in UserIds
               /\ r.expires_at \in Nat
               /\ r.token_hash \notin GenTokens \cup {UnknownToken}
               /\ \E t \in DOMAIN generated :
                    r.token_hash = hash_token(t) /\ r.user_id = generated[t].user_id
          /\ \A t \in Presentable :
               ValidateResult(t) # None
                 => \E r \in accessTokens : r.token_hash = hash_token(t))
    /\ [][lastOp'.op = "revoke"
          => accessTokens \ accessTokens'
               = {r \in accessTokens : r.token_hash = hash_token(lastOp'.args.token)}]_vars

\* A token has just been validated against the row that holds its digest.
C22_Witness ==
    /\ lastOp.op = "validate"
    /\ lastOp.result # None
    /\ \E r \in accessTokens :
         /\ r.token_hash = hash_token(lastOp.args.token)
         /\ r.token_hash # lastOp.args.token

(***************************************************************************)
(* Credential Codec (checked under CodecSpec)                              *)
(***************************************************************************)

\* C23: verify_password(p, h), for a password p of at most 72 bytes and a
\* hash h that hash_password returned for a password p2, is true when p is p2
\* and false when p differs from p2.
C23_VerifyRoundTrip ==
    (lastOp.op = "verify_password" /\ utf8_len(lastOp.args.plain_password) <= BcryptMaxBytes)
        => lastOp.result = (lastOp.args.plain_password = lastOp.args.hashed_from)

\* A 72-byte password was verified against its own hash, made with a salt
\* other than the first.
C23_Witness ==
    /\ lastOp.op = "verify_password"
    /\ lastOp.args.plain_password = "pw36wide"
    /\ lastOp.args.hashed_from = "pw36wide"
    /\ lastOp.args.hashed_password.salt = "salt4"
    /\ lastOp.result = TRUE

(***************************************************************************)
(* The 72-byte limit (checked under PasswordSpec)                          *)
(***************************************************************************)

\* The password encodes to more than 72 bytes.
TooLong(password) == utf8_len(password) > BcryptMaxBytes

\* C24: hash_password raises ValueError exactly for a password of more than
\* 72 bytes of UTF-8 and returns a hash for one of 72 bytes; a register whose
\* password is too long raises ValidationException and creates no User,
\* customer or business row; a reset_password of an existing user raises
\* ValidationException and leaves the users table as it was when the password
\* is too long, and succeeds otherwise.
C24_LengthLimit ==
    /\ [](lastOp.op = "hash_password"
            => (/\ ("error" \in DOMAIN lastOp.result) = TooLong(lastOp.args.password)
                /\ (TooLong(lastOp.args.password) => lastOp.result.error = "ValueError")))
    /\ [][(lastOp'.op = "register" /\ TooLong(lastOp'.args.password))
          => (/\ lastOp'.result.error = "ValidationException"
              /\ (get_by_email(lastOp'.args.email) = {}
                    => lastOp'.result = ValidationException("Password validation failed"))
              /\ UNCHANGED acctVars)]_vars
    /\ [][(lastOp'.op = "reset_password" /\ lastOp'.args.user_id \in DOMAIN users)
          => IF TooLong(lastOp'.args.new_password)
             THEN /\ lastOp'.result = ValidationException("Password validation failed")
                  /\ UNCHANGED acctVars
             ELSE lastOp'.result = [ok |-> TRUE]]_vars

\* reset_password of an existing user was refused a password of 72 characters
\* that encodes to 73 bytes.
C24_Witness ==
    /\ lastOp.op = "reset_password"
    /\ lastOp.args.user_id \in DOMAIN users
    /\ lastOp.args.new_password = "pw72chars"
    /\ lastOp.result = ValidationException("Password validation failed")
    /\ users[lastOp.args.user_id].password_hash.checksum[2] = "pw1"

(***************************************************************************)
(* The audit rows of verify_otp (checked under OtpSpec, where the durable  *)
(* store is available)                                                     *)
(***************************************************************************)

\* C25: a step that completes a mismatched verify_otp of a user who has an
\* active audit row raises that row's attempts by one.
C25_AuditCountsMismatch ==
    [][\A p \in ProcIds :
         (/\ procs[p].pc = "mismatch"
          /\ procs'[p].pc = "idle"
          /\ get_active_by_user(procs[p].user_id) # 0)
         => otps'[get_active_by_user(procs[p].user_id)].attempts
              = otps[get_active_by_user(procs[p].user_id)].attempts + 1]_vars

\* C26: a step that completes a matching verify_otp of code c marks an audit
\* row of code c used, with the instant of the call as used_at, changes no
\* audit row of another code, and leaves no cache entry for the user.
C26_AuditMarksUsed ==
    [][\A p \in ProcIds :
         (procs[p].pc = "match" /\ procs'[p].pc = "idle")
         => (/\ \E i \in 1..Len(otps) :
                  /\ otps[i].user_id = procs[p].user_id
                  /\ otps[i].code = procs[p].otp_code
                  /\ ~otps[i].is_used
                  /\ otps'[i].is_used
                  /\ otps'[i].used_at = now
             /\ \A j \in 1..Len(otps) :
                  otps[j].code # procs[p].otp_code => otps'[j] = otps[j]
             /\ procs[p].user_id \notin DOMAIN redis')]_vars

\* C27: a step that completes a mismatched verify_otp answers "Invalid OTP
\* code" and writes the entry it read with that entry's attempts plus one,
\* whatever the cache holds by then (the last writer wins); so concurrent
\* mismatched calls that read the same entry raise the counter by one between
\* them, and more than OTP_MAX_ATTEMPTS wrong codes can be answered "Invalid
\* OTP code" against one code (the state C27_Witness, which is reachable).
C27_LastWriterWins ==
    [][\A p \in ProcIds :
         (procs[p].pc = "mismatch" /\ procs'[p].pc = "idle")
         => (/\ lastOp'.result = OTPException("Invalid OTP code")
             /\ procs[p].user_id \in DOMAIN redis'
             /\ json_loads(redis'[procs[p].user_id].value)
                  = [procs[p].otp_data EXCEPT !.attempts = procs[p].otp_data.attempts + 1])]_vars

\* One code was created, no time has passed and no call is in flight;
\* OTP_MAX_ATTEMPTS + 1 verify calls with a wrong code have completed, none
\* with the right one, and the entry is still in the cache with attempts
\* OTP_MAX_ATTEMPTS: each of the calls was answered "Invalid OTP code".
C27_Witness ==
    /\ nCreates = 1
    /\ now = 0
    /\ InFlight = {}
    /\ lastOp.op = "verify"
    /\ lastOp.result = OTPException("Invalid OTP code")
    /\ sent[lastOp.args.user_id].wrong = OTP_MAX_ATTEMPTS + 1
    /\ sent[lastOp.args.user_id].right = 0
    /\ redis_exists(lastOp.args.user_id)
    /\ json_loads(redis_get(lastOp.args.user_id)).attempts = OTP_MAX_ATTEMPTS

(***************************************************************************)
(* POST /send-otp (checked under SendOtpSpec)                              *)
(***************************************************************************)

\* C28: POST /send-otp for an email no user has is answered 404 "User not
\* found"; the step writes no cache entry, inserts no audit row and hands no
\* message to the email service.
C28_UnknownEmailNotFound ==
    [][(lastOp'.op = "POST /send-otp" /\ get_by_email(lastOp'.args.email) = {})
       => (/\ lastOp'.result = HTTPException(404, "User not found")
           /\ lastOp'.args.mail = {}
           /\ UNCHANGED <<redis, otps, sent, nCreates>>)]_vars

\* POST /send-otp was answered 404 while the cache holds the entry of a user.
C28_Witness ==
    /\ lastOp.op = "POST /send-otp"
    /\ lastOp.args.email = "c@x"
    /\ lastOp.result = HTTPException(404, "User not found")
    /\ DOMAIN redis = {"u1"}
    /\ Len(otps) = 1

(***************************************************************************)
(* Code generation (checked under GenerateSpec)                            *)
(***************************************************************************)

\* The decimal digit characters.
Digits == {"0", "1", "2", "3", "4", "5", "6", "7", "8", "9"}

\* C29: generate_otp returns a string of exactly otp_length characters, each a
\* decimal digit; and the strings it can return are all the digit strings of
\* that length, those that begin with "0" included.
C29_GenerateDigits ==
    /\ (lastOp.op = "generate_otp"
          => (/\ Len(lastOp.result) = lastOp.args.otp_length
              /\ \A i \in 1..Len(lastOp.result) : lastOp.result[i] \in Digits))
    /\ \A n \in OtpLengths : generate_otp_string(n) = [1..n -> Digits]

\* A code of the greatest length that begins with zeros.
C29_Witness ==
    /\ lastOp.op = "generate_otp"
    /\ lastOp.args.otp_length = MaxOtpLength
    /\ lastOp.result = [i \in 1..MaxOtpLength |-> IF i = MaxOtpLength THEN "7" ELSE "0"]

(***************************************************************************)
(* Concurrent registration (checked under RegisterConcSpec)                *)
(***************************************************************************)

\* C30: under every interleaving of register calls, no two User rows share an
\* email or a non-null phone, and every register call either creates its User
\* row or fails with a ValidationException.
C30_ConcurrentDuplicates ==
    /\ \A u \in DOMAIN users, v \in DOMAIN users :
         u # v => /\ users[u].email # users[v].email
                  /\ (users[u].phone = None \/ users[u].phone # users[v].phone)
    /\ (lastOp.op = "register" => lastOp.result.error \in {None, "ValidationException"})

(***************************************************************************)
(* One success per code under concurrent verify calls (checked under       *)
(* OtpSpec)                                                                *)
(***************************************************************************)

\* C31: a code written by one createAndSend yields at most one successful
\* verify under every interleaving.  In particular, when one code has been
\* created, no time has passed and no verify with another code has completed,
\* the second verify to complete with that code fails with "OTP expired or not
\* found" (the first one, which found the fresh entry, succeeded and consumed
\* it).
C31_AtMostOneSuccess ==
    (/\ lastOp.op = "verify"
     /\ nCreates = 1
     /\ now = 0
     /\ lastOp.args.user_id \in DOMAIN sent
     /\ lastOp.args.otp_code = Hist.code
     /\ Hist.wrong = 0
     /\ Hist.right = 2)
    => lastOp.result = OTPException("OTP expired or not found")

\* A rejection by verify_otp, as an endpoint answers it.
OtpRejections ==
    {HTTPException(400, m) : m \in {"OTP expired or not found",
                                    "Maximum OTP attempts exceeded",
                                    "Invalid OTP code"}}

\* C32: the result of verify does not depend on the purpose stored with the
\* cache entry: whichever endpoint created the entry, POST /verify-otp and
\* POST /reset-password accept the code exactly when an entry exists for the
\* user, its attempts are below the limit and its code equals the submitted
\* one, and reject it otherwise.
C32_VerifyIgnoresPurpose ==
    (/\ lastOp.op \in {"POST /verify-otp", "POST /reset-password"}
     /\ lastOp.result # HTTPException(404, "User not found"))
    => ((\E e \in lastOp.args.entry :
            ~attempts_exhausted(e) /\ e.code = lastOp.args.otp)
        <=> lastOp.result \notin OtpRejections)

\* A code created by send-otp was accepted by reset-password.
C32_Witness ==
    /\ lastOp.op = "POST /reset-password"
    /\ lastOp.result = SuccessResponse(<<>>, "Password reset successfully")
    /\ \E e \in lastOp.args.entry : e.purpose = "verification"

\* C33: the sweep deletes exactly the token records whose expires_at is earlier
\* than the current time and returns their number; no record that validate
\* would accept (expires_at later than the current time) is deleted, and
\* validate returns for every token what it returned before the sweep.
C33_SweepExact ==
    [][lastOp'.op = "sweep" =>
        LET expired == {r \in accessTokens : r.expires_at < now}
        IN  /\ accessTokens' = accessTokens \ expired
            /\ lastOp'.result = Cardinality(expired)
            /\ \A r \in accessTokens : r.expires_at > now => r \in accessTokens'
            /\ \A t \in Presentable : ValidateResult(t)' = ValidateResult(t)]_vars

\* C33 witness: a sweep has deleted a record and kept the record of a token
\* that still validates.
C33_Witness ==
    /\ lastOp.op = "sweep"
    /\ lastOp.result > 0
    /\ \E t \in DOMAIN generated : ValidateResult(t) = generated[t].user_id

\* C34: the audit-row sweep removes exactly the rows that are unused and past
\* their expiry and returns their number; rows marked used and rows not yet
\* expired stay as they are, no cache entry changes, and so the branch a later
\* verify takes, and the audit row it would update, are what they were.
C34_CleanupExact ==
    [][(lastOp'.op = "cleanup" /\ lastOp'.args.db_ok /\ procs' = procs) =>
        LET removed == {i \in 1..Len(otps) : ~otps[i].is_used /\ otps[i].expires_at < now}
            stay(otp) == otp.is_used \/ otp.expires_at >= now
        IN  /\ otps' = SelectSeq(otps, stay)
            /\ Len(otps') = Len(otps) - Cardinality(removed)
            /\ lastOp'.result = Cardinality(removed)
            /\ redis' = redis
            /\ \A u \in OtpUsers :
                  /\ \A code \in generate_otp :
                        verify_otp_outcome(u, code)' = verify_otp_outcome(u, code)
                  /\ (get_active_by_user(u) = 0) <=> (get_active_by_user(u)' = 0)
                  /\ get_active_by_user(u) # 0
                       => otps'[get_active_by_user(u)'] = otps[get_active_by_user(u)]]_vars

\* C34 witness: a sweep has removed a row while a cache entry is live and the
\* user's active audit row is still there.
C34_Witness ==
    /\ lastOp.op = "cleanup"
    /\ lastOp.args.db_ok
    /\ lastOp.result > 0
    /\ \E u \in OtpUsers : redis_exists(u) /\ get_active_by_user(u) # 0

(***************************************************************************)
(* Token Store: several sessions per user (checked under Spec)             *)
(***************************************************************************)

\* C35: a user may hold several valid tokens at once.  Issuing a token to a
\* user keeps every record there was, and every earlier token validates as it
\* did; revoking a token deletes only the record whose digest is the token's,
\* returns true exactly when there was such a record, expired or not, and
\* every other token, of the same user or of another, validates as it did.
C35_ManyTokensPerUser ==
    /\ [][lastOp'.op = "issue" =>
            /\ accessTokens \subseteq accessTokens'
            /\ \A t \in DOMAIN generated : ValidateResult(t)' = ValidateResult(t)
            /\ \E r \in accessTokens' \ accessTokens :
                  /\ r.user_id = lastOp'.args.user_id
                  /\ r.token_hash = hash_token(lastOp'.result)]_vars
    /\ [][lastOp'.op = "revoke" =>
            LET t == lastOp'.args.token
                held == {r \in accessTokens : r.token_hash = hash_token(t)}
            IN  /\ accessTokens' = accessTokens \ held
                /\ lastOp'.result = (held # {})
                /\ \A t2 \in Presentable \ {t} : ValidateResult(t2)' = ValidateResult(t2)]_vars

\* C35 witness: one token of a user has been revoked, and another token of
\* the same user still validates.
C35_Witness ==
    /\ lastOp.op = "revoke"
    /\ lastOp.result = TRUE
    /\ lastOp.args.token \in DOMAIN generated
    /\ \E t \in DOMAIN generated \ {lastOp.args.token} :
          /\ generated[t].user_id = generated[lastOp.args.token].user_id
          /\ ValidateResult(t) = generated[t].user_id

(***************************************************************************)
(* Account verification (checked under VerifySpec)                         *)
(***************************************************************************)

\* Whether the request recorded in `op` presented the code of a cache entry
\* whose attempts are below the limit.
OtpAccepted(op) ==
    \E e \in op.args.entry : ~attempts_exhausted(e) /\ e.code = op.args.otp

C37_HashChangesOnlyByReset ==
    /\ [][\A u \in DOMAIN users :
            users'[u].password_hash # users[u].password_hash
              => (/\ lastOp'.op = "POST /reset-password"
                  /\ lastOp'.result.status = 200
                  /\ get_by_email(lastOp'.args.email) = {u}
                  /\ OtpAccepted(lastOp'))]_vars
    /\ [][(lastOp'.op = "POST /reset-password" /\ lastOp'.result.status \in {400, 404})
            => users' = users]_vars

\* C37 witness: POST /reset-password has accepted a code and the user's stored
\* hash is that of the new password.
C37_Witness ==
    /\ lastOp.op = "POST /reset-password"
    /\ lastOp.result.status = 200
    /\ OtpAccepted(lastOp)
    /\ \E u \in get_by_email(lastOp.args.email) :
          /\ verify_password(lastOp.args.new_password, users[u].password_hash)
          /\ users[u].password_hash.salt = "salt3"

(***************************************************************************)
(* Role-gated access (checked under GateSpec)                              *)
(***************************************************************************)

\* The role a gate asks for.
GateRole(op) ==
    IF op = "get_current_active_customer" THEN "CUSTOMER" ELSE "BUSINESS_OWNER"

\* The user the request's token validates to, or None (no header, or a token
\* that is unknown, expired or revoked).
GateUser(authorization) ==
    IF authorization = {} THEN None
    ELSE ValidateResult(CHOOSE token \in authorization : TRUE)

\* C38: a customer-gated request is granted exactly when its bearer token
\* validates to a user whose role is CUSTOMER, a business-gated one exactly
\* when the role is BUSINESS_OWNER; a request whose token is missing, unknown,
\* expired or revoked is answered 401, whatever the role asked for, and a
\* request with a valid token of another role is answered 403.
C38_RoleGate ==
    lastOp.op \in {"get_current_active_customer", "get_current_active_business"} =>
        LET user == GateUser(lastOp.args.authorization)
        IN  IF user = None THEN lastOp.result.status = 401
            ELSE IF users[user].user_type = GateRole(lastOp.op)
            THEN lastOp.result = [user |-> user]
            ELSE lastOp.result.status = 403

(***************************************************************************)
(* Rate limiting (checked under RateSpec)                                  *)
(***************************************************************************)

\* C39: under every interleaving of concurrent requests from one address, at
\* most RATE_LIMIT_PER_MINUTE requests are passed on within one minute (here:
\* at one instant of the minute clock), and a request is answered 429 only
\* when the counter it read had reached RATE_LIMIT_PER_MINUTE.
C39_RateLimit ==
    /\ forwarded.n <= RATE_LIMIT_PER_MINUTE
    /\ (lastOp.op = "dispatch" /\ lastOp.result.status = 429)
         => lastOp.args.current_count >= RATE_LIMIT_PER_MINUTE
====
